---------------------------- MODULE Spec2Model ----------------------------
(***************************************************************************)
(* Incremental index and impact engine of elephant-coder.                  *)
(*                                                                         *)
(*   elephant_coder/index_engine.py  parser, refresh_index, _rebuild_edges,*)
(*                                   impact_for_files                      *)
(*   elephant_coder/state_store.py   the SQLite fact store                 *)
(*                                                                         *)
(* Paths are project-relative POSIX strings.  A dotted module name is the  *)
(* sequence of its parts.  Floats with three decimals (weights,            *)
(* confidences) are integers in thousandths; oracle strengths are integers *)
(* in ten-thousandths, so that round(x, 3) is a real rounding.             *)
(***************************************************************************)
EXTENDS Integers, Sequences, FiniteSets, Bags, TLC

(***************************************************************************)
(* Bounds of the model.                                                    *)
(***************************************************************************)
MaxMtime == 1        \* modification times are drawn from 0..MaxMtime
MaxChanged == 2      \* longest changed_files list given to impact_for_files
MaxDepthArg == 3     \* max_depth arguments are drawn from -1..MaxDepthArg
MaxEdgeRows == 2     \* longest edge list given to replace_edges
MaxPredictions == 1  \* longest list predict_consequence returns

(***************************************************************************)
(* Program constants.                                                      *)
(***************************************************************************)
ImportWeight == 1000          \* 1.0
CallWeight == 700             \* 0.7
ChangedConfidence == 1000     \* 1.0
DirectConfidence == 850       \* 0.85
TransitiveNumerator == 750    \* 0.75 / dist
ConfidenceFloor == 250        \* 0.25
DefaultStrength == 4000       \* predicted_strength.get(file_path, 0.4)
DefaultMaxDepth == 8

SKIP_DIRS ==
    {".elephant-coder", ".git", ".venv", "venv", "__pycache__", ".mypy_cache",
     ".pytest_cache", "node_modules", "dist", "build"}

(***************************************************************************)
(* The files a tree may hold, in the order of their strings, and the parts *)
(* of each path.                                                           *)
(***************************************************************************)
AllPaths == <<"a.py", "b.py", "build/b.py", "c.py", "d.py", "d/__init__.py", "e.py">>

\* the same files in the order files.sort() gives Path objects, which
\* compares part by part: the part d stands before the part d.py
ScanOrder == <<"a.py", "b.py", "build/b.py", "c.py", "d/__init__.py", "d.py", "e.py">>

Paths == {AllPaths[i] : i \in 1..Len(AllPaths)}

PathParts(p) ==
    IF p = "build/b.py" THEN {"build", "b.py"}
    ELSE IF p = "d/__init__.py" THEN {"d", "__init__.py"}
    ELSE {p}

PathRank(p) == CHOOSE i \in 1..Len(AllPaths) : AllPaths[i] = p

(***************************************************************************)
(* Source texts.  A text is named by an identifier; SourceTree gives what  *)
(* ast.parse makes of it: a sequence of statements, or a syntax error.     *)
(* A statement is a record                                                 *)
(*   t       "import" | "from" | "def" | "async_def" | "class" | "call"    *)
(*           | "other"                                                     *)
(*   name    the defined name (def, class)                                 *)
(*   module  the parts of the module of a from-import                      *)
(*   names   the aliases: parts of each imported module (import), or the   *)
(*           one-part imported names, <<"*">> for a wildcard (from)        *)
(*   func    the callee expression of a call as an attribute chain:        *)
(*           <<"foo">> is foo(), <<"y", "v">> is y.v(), << >> is a callee  *)
(*           that is neither a Name nor an Attribute                       *)
(*   params  the positional parameter names (def)                          *)
(*   lineno, end_lineno                                                    *)
(*   body    the statements and call expressions nested in it              *)
(***************************************************************************)
Stmt(t, name, module, names, func, params, lineno, end_lineno, body) ==
    [t |-> t, name |-> name, module |-> module, names |-> names, func |-> func,
     params |-> params, lineno |-> lineno, end_lineno |-> end_lineno,
     body |-> body]

ImportStmt(names, line) == Stmt("import", "", << >>, names, << >>, << >>, line, line, << >>)
FromStmt(module, names, line) == Stmt("from", "", module, names, << >>, << >>, line, line, << >>)
DefStmt(name, params, line, last, body) == Stmt("def", name, << >>, << >>, << >>, params, line, last, body)
AsyncDefStmt(name, params, line, last, body) == Stmt("async_def", name, << >>, << >>, << >>, params, line, last, body)
ClassStmt(name, line, last, body) == Stmt("class", name, << >>, << >>, << >>, << >>, line, last, body)
CallExpr(func, line, args) == Stmt("call", "", << >>, << >>, func, << >>, line, line, args)
OtherStmt(line, body) == Stmt("other", "", << >>, << >>, << >>, << >>, line, line, body)

SyntaxErrorText == "invalid syntax"

\* [ok |-> TRUE, body |-> statements] or [ok |-> FALSE, body |-> << >>]
SourceTree(src) ==
    CASE src = "a_import_d" ->
           \* import d, os / from d import helper / helper()
           [ok |-> TRUE,
            body |-> <<ImportStmt(<< <<"d">>, <<"os">> >>, 1),
                       FromStmt(<<"d">>, << <<"helper">> >>, 2),
                       OtherStmt(4, <<CallExpr(<<"helper">>, 4, << >>)>>)>>]
      [] src = "a_import_b" ->
           \* import b / x = 1
           [ok |-> TRUE, body |-> <<ImportStmt(<< <<"b">> >>, 1), OtherStmt(3, << >>)>>]
      [] src = "b_def_foo" ->
           \* def foo(): return 1
           [ok |-> TRUE, body |-> <<DefStmt("foo", << >>, 1, 2, <<OtherStmt(2, << >>)>>)>>]
      [] src = "b_import_c" ->
           \* import c / class Foo: / def foo(self, x): return c.bar(self.foo(x))
           [ok |-> TRUE,
            body |-> <<ImportStmt(<< <<"c">> >>, 1),
                       ClassStmt("Foo", 3, 5,
                          <<DefStmt("foo", <<"self", "x">>, 4, 5,
                               <<OtherStmt(5, <<CallExpr(<<"c", "bar">>, 5,
                                                  <<CallExpr(<<"self", "foo">>, 5, << >>)>>)>>)>>)>>)>>]
      [] src = "c_from_b" ->
           \* from b import foo / def bar(): return foo()
           [ok |-> TRUE,
            body |-> <<FromStmt(<<"b">>, << <<"foo">> >>, 1),
                       DefStmt("bar", << >>, 3, 4,
                          <<OtherStmt(4, <<CallExpr(<<"foo">>, 4, << >>)>>)>>)>>]
      [] src = "c_only_from_b" ->
           \* from b import foo
           [ok |-> TRUE, body |-> <<FromStmt(<<"b">>, << <<"foo">> >>, 1)>>]
      [] src = "c_import_d" ->
           \* from d import * / async def bar(): import b; return qux(foo())
           [ok |-> TRUE,
            body |-> <<FromStmt(<<"d">>, << <<"*">> >>, 1),
                       AsyncDefStmt("bar", << >>, 3, 5,
                          <<ImportStmt(<< <<"b">> >>, 4),
                            OtherStmt(5, <<CallExpr(<<"qux">>, 5,
                                              <<CallExpr(<<"foo">>, 5, << >>)>>)>>)>>)>>]
      [] src = "d_def_qux" ->
           \* def qux(v): return v
           [ok |-> TRUE, body |-> <<DefStmt("qux", <<"v">>, 1, 2, <<OtherStmt(2, << >>)>>)>>]
      [] src = "d_import_a" ->
           \* import a, build.b / def qux(): return 0 / qux()
           [ok |-> TRUE,
            body |-> <<ImportStmt(<< <<"a">>, <<"build", "b">> >>, 1),
                       DefStmt("qux", << >>, 3, 4, <<OtherStmt(4, << >>)>>),
                       OtherStmt(6, <<CallExpr(<<"qux">>, 6, << >>)>>)>>]
      [] src = "e_import_a" ->
           \* import a
           [ok |-> TRUE, body |-> <<ImportStmt(<< <<"a">> >>, 1)>>]
      [] src = "gen_def_foo" ->
           \* def foo(): return 2
           [ok |-> TRUE, body |-> <<DefStmt("foo", << >>, 1, 2, <<OtherStmt(2, << >>)>>)>>]
      [] OTHER ->
           \* "broken": def broken(: / return 0
           [ok |-> FALSE, body |-> << >>]


(***************************************************************************)
(* Helpers.                                                                *)
(***************************************************************************)
RECURSIVE JoinWith(_, _)
JoinWith(parts, sep) ==
    IF Len(parts) = 0 THEN ""
    ELSE IF Len(parts) = 1 THEN parts[1]
    ELSE parts[1] \o sep \o JoinWith(Tail(parts), sep)

RECURSIVE SeqToBag(_)
SeqToBag(seq) ==
    IF Len(seq) = 0 THEN EmptyBag
    ELSE SetToBag({seq[1]}) (+) SeqToBag(Tail(seq))

SeqToSet(seq) == {seq[i] : i \in 1..Len(seq)}

Max(a, b) == IF a >= b THEN a ELSE b

(***************************************************************************)
(* The parser.                                                             *)
(***************************************************************************)
\* _sha256_text: the digest names the text it was computed from
Sha256Text(src) == "sha256:" \o src

\* an extraction that adds the module of a from-import as well
RECURSIVE ImportsOf_FromAddsModule(_)
ImportsOf_FromAddsModule(stmts) ==
    IF Len(stmts) = 0 THEN {}
    ELSE LET node == stmts[1]
             here ==
               IF node.t = "import" THEN
                 {node.names[i] : i \in {j \in 1..Len(node.names) : node.names[j] /= << >>}}
               ELSE IF node.t = "from" THEN
                 {IF node.names[i] = <<"*">> THEN node.module
                  ELSE IF node.module /= << >> THEN node.module \o node.names[i]
                  ELSE node.names[i] :
                    i \in {j \in 1..Len(node.names) :
                             node.names[j] /= <<"*">> \/ node.module /= << >>}}
                   \cup (IF node.module /= << >> THEN {node.module} ELSE {})
               ELSE {}
         IN here \cup ImportsOf_FromAddsModule(node.body)
                 \cup ImportsOf_FromAddsModule(Tail(stmts))

\* _extract_imports: ast.walk visits every Import and ImportFrom node of the
\* tree, whatever its nesting; the result is a set.
RECURSIVE ImportsOf(_)
ImportsOf(stmts) ==
    IF Len(stmts) = 0 THEN {}
    ELSE LET node == stmts[1]
             here ==
               IF node.t = "import" THEN
                 {node.names[i] : i \in {j \in 1..Len(node.names) : node.names[j] /= << >>}}
               ELSE IF node.t = "from" THEN
                 {IF node.names[i] = <<"*">> THEN node.module
                  ELSE IF node.module /= << >> THEN node.module \o node.names[i]
                  ELSE node.names[i] :
                    i \in {j \in 1..Len(node.names) :
                             node.names[j] /= <<"*">> \/ node.module /= << >>}}
               ELSE {}
         IN here \cup ImportsOf(node.body) \cup ImportsOf(Tail(stmts))

ExtractImports(tree) == ImportsOf(tree.body)

\* _Collector._qualname
Qualname(scope, name) ==
    IF Len(scope) = 0 THEN name ELSE JoinWith(Append(scope, name), ".")

\* _Collector._function_signature, for definitions without annotations,
\* *args and **kwargs (the texts above have none)
FunctionSignature(node, kind) ==
    (IF kind = "async_function" THEN "async def" ELSE "def")
      \o " " \o node.name \o "(" \o JoinWith(node.params, ", ") \o ")"

\* visit_ClassDef's signature, for classes without bases
ClassSignature(node) == "class " \o node.name

SymbolOf(node, scope) ==
    LET kind == IF node.t = "class" THEN "class"
                ELSE IF node.t = "async_def" THEN "async_function"
                ELSE "function"
    IN [symbol_name |-> node.name,
        qualname |-> Qualname(scope, node.name),
        kind |-> kind,
        lineno |-> node.lineno,
        end_lineno |-> node.end_lineno,
        signature |-> IF kind = "class" THEN ClassSignature(node)
                      ELSE FunctionSignature(node, kind)]

IsDefinition(node) == node.t \in {"def", "async_def", "class"}

\* _Collector.visit over a statement list: the symbols in visiting order
RECURSIVE CollectSymbols(_, _)
CollectSymbols(stmts, scope) ==
    IF Len(stmts) = 0 THEN << >>
    ELSE LET node == stmts[1]
             here ==
               IF IsDefinition(node) THEN
                 <<SymbolOf(node, scope)>>
                   \o CollectSymbols(node.body, Append(scope, node.name))
               ELSE CollectSymbols(node.body, scope)
         IN here \o CollectSymbols(Tail(stmts), scope)

\* _Collector.visit_Call: callee is the Name's id or the Attribute's attr
CalleeOf(node) ==
    IF Len(node.func) = 0 THEN "" ELSE node.func[Len(node.func)]

RECURSIVE CollectCalls(_, _)
CollectCalls(stmts, scope) ==
    IF Len(stmts) = 0 THEN << >>
    ELSE LET node == stmts[1]
             here ==
               IF IsDefinition(node) THEN
                 CollectCalls(node.body, Append(scope, node.name))
               ELSE IF node.t = "call" THEN
                 (IF CalleeOf(node) /= "" THEN
                    <<[caller_qualname |->
                         IF Len(scope) = 0 THEN "<module>" ELSE JoinWith(scope, "."),
                       callee_name |-> CalleeOf(node)]>>
                  ELSE << >>)
                   \o CollectCalls(node.body, scope)
               ELSE CollectCalls(node.body, scope)
         IN here \o CollectCalls(Tail(stmts), scope)

\* _parse_python_file: symbols, imports, calls and the parse error
\* ("" stands for None)
ParsePythonFile(src) ==
    LET tree == SourceTree(src)
    IN IF ~tree.ok THEN
         [symbols |-> << >>, imports |-> {}, calls |-> << >>,
          parse_error |-> SyntaxErrorText]
       ELSE
         [symbols |-> CollectSymbols(tree.body, << >>),
          imports |-> ExtractImports(tree),
          calls |-> CollectCalls(tree.body, << >>),
          parse_error |-> ""]

(***************************************************************************)
(* The fact store (state_store.py).  A store is a record of its five       *)
(* tables.  Row ids are never read, so symbols, imports and calls are bags *)
(* of rows; edges is the sequence of rows in rowid order, which is the     *)
(* order SELECT returns them in.  indexed_at is written and never read; it *)
(* is left out of the indexed_files rows.                                  *)
(***************************************************************************)
EmptyStore ==
    [indexed_files |-> << >>, symbols |-> EmptyBag, imports |-> EmptyBag,
     calls |-> EmptyBag, edges |-> << >>]

\* DELETE FROM <table> WHERE file_path = ?
DeleteRowsOf(table, file_path) ==
    [row \in {r \in DOMAIN table : r.file_path /= file_path} |-> table[row]]

\* StateStore.get_indexed_file_meta
GetIndexedFileMeta(st) == st.indexed_files

\* upsert_indexed_file whose ON CONFLICT clause forgets mtime
UpsertIndexedFile_KeepsOldMtime(st, file_path, file_hash, mtime, parse_error) ==
    LET old == IF file_path \in DOMAIN st.indexed_files
               THEN st.indexed_files[file_path].mtime ELSE mtime
        row == [file_hash |-> file_hash, mtime |-> old, parse_error |-> parse_error]
    IN [st EXCEPT !.indexed_files =
          [p \in DOMAIN st.indexed_files \cup {file_path} |->
             IF p = file_path THEN row ELSE st.indexed_files[p]]]

\* upsert_indexed_file as INSERT OR IGNORE: the row of a known path stays
UpsertIndexedFile_InsertOrIgnore(st, file_path, file_hash, mtime, parse_error) ==
    LET row == [file_hash |-> file_hash, mtime |-> mtime, parse_error |-> parse_error]
    IN [st EXCEPT !.indexed_files =
          [p \in DOMAIN st.indexed_files \cup {file_path} |->
             IF p \in DOMAIN st.indexed_files THEN st.indexed_files[p] ELSE row]]

\* upsert_indexed_file as an UPDATE: no row is inserted for a new path
UpsertIndexedFile_UpdateOnly(st, file_path, file_hash, mtime, parse_error) ==
    LET row == [file_hash |-> file_hash, mtime |-> mtime, parse_error |-> parse_error]
    IN [st EXCEPT !.indexed_files =
          [p \in DOMAIN st.indexed_files |->
             IF p = file_path THEN row ELSE st.indexed_files[p]]]

\* StateStore.upsert_indexed_file
UpsertIndexedFile(st, file_path, file_hash, mtime, parse_error) ==
    LET row == [file_hash |-> file_hash, mtime |-> mtime, parse_error |-> parse_error]
    IN [st EXCEPT !.indexed_files =
          [p \in DOMAIN st.indexed_files \cup {file_path} |->
             IF p = file_path THEN row ELSE st.indexed_files[p]]]

\* delete_file that removes the indexed_files row and leaves the facts
DeleteFile_KeepsFacts(st, file_path) ==
    [st EXCEPT !.indexed_files =
       [p \in DOMAIN st.indexed_files \ {file_path} |-> st.indexed_files[p]]]

\* delete_file whose last statement is DELETE FROM edges, with no WHERE
DeleteFile_DropsAllEdges(st, file_path) ==
    [indexed_files |->
       [p \in DOMAIN st.indexed_files \ {file_path} |-> st.indexed_files[p]],
     symbols |-> DeleteRowsOf(st.symbols, file_path),
     imports |-> DeleteRowsOf(st.imports, file_path),
     calls |-> DeleteRowsOf(st.calls, file_path),
     edges |-> << >>]

\* StateStore.delete_file
DeleteFile(st, file_path) ==
    [indexed_files |->
       [p \in DOMAIN st.indexed_files \ {file_path} |-> st.indexed_files[p]],
     symbols |-> DeleteRowsOf(st.symbols, file_path),
     imports |-> DeleteRowsOf(st.imports, file_path),
     calls |-> DeleteRowsOf(st.calls, file_path),
     edges |-> SelectSeq(st.edges,
                 LAMBDA e : ~(e.src_file = file_path \/ e.dst_file = file_path))]

SymbolRow(file_path, item) ==
    [file_path |-> file_path, symbol_name |-> item.symbol_name,
     qualname |-> item.qualname, kind |-> item.kind, lineno |-> item.lineno,
     end_lineno |-> item.end_lineno, signature |-> item.signature]

ImportRow(file_path, module) == [file_path |-> file_path, module_name |-> module]

CallRow(file_path, item) ==
    [file_path |-> file_path, caller_qualname |-> item.caller_qualname,
     callee_name |-> item.callee_name]

\* replace_file_analysis without the three DELETE statements
ReplaceFileAnalysis_KeepsOld(st, file_path, symbols, imports, calls) ==
    [st EXCEPT
       !.symbols = st.symbols
                     (+) SeqToBag([i \in 1..Len(symbols) |-> SymbolRow(file_path, symbols[i])]),
       !.imports = st.imports
                     (+) SetToBag({ImportRow(file_path, m) : m \in imports}),
       !.calls = st.calls
                     (+) SeqToBag([i \in 1..Len(calls) |-> CallRow(file_path, calls[i])])]

\* replace_file_analysis that returns at once when it is given no row
ReplaceFileAnalysis_SkipsEmpty(st, file_path, symbols, imports, calls) ==
    IF symbols = << >> /\ imports = {} /\ calls = << >> THEN st
    ELSE [st EXCEPT
            !.symbols = DeleteRowsOf(st.symbols, file_path)
                          (+) SeqToBag([i \in 1..Len(symbols) |->
                                          SymbolRow(file_path, symbols[i])]),
            !.imports = DeleteRowsOf(st.imports, file_path)
                          (+) SetToBag({ImportRow(file_path, m) : m \in imports}),
            !.calls = DeleteRowsOf(st.calls, file_path)
                        (+) SeqToBag([i \in 1..Len(calls) |-> CallRow(file_path, calls[i])])]

\* StateStore.replace_file_analysis; imports is the sorted list of a set
ReplaceFileAnalysis(st, file_path, symbols, imports, calls) ==
    [st EXCEPT
       !.symbols = DeleteRowsOf(st.symbols, file_path)
                     (+) SeqToBag([i \in 1..Len(symbols) |-> SymbolRow(file_path, symbols[i])]),
       !.imports = DeleteRowsOf(st.imports, file_path)
                     (+) SetToBag({ImportRow(file_path, m) : m \in imports}),
       !.calls = DeleteRowsOf(st.calls, file_path)
                     (+) SeqToBag([i \in 1..Len(calls) |-> CallRow(file_path, calls[i])])]

\* StateStore.list_imports, list_calls: the rows, whatever their number
ListImports(st) == BagToSet(st.imports)
ListCalls(st) == BagToSet(st.calls)

\* StateStore.symbol_files_by_name
SymbolFilesByName(st) ==
    [name \in {r.symbol_name : r \in BagToSet(st.symbols)} |->
       {r.file_path : r \in {q \in BagToSet(st.symbols) : q.symbol_name = name}}]

\* UNIQUE(src_file, dst_file, edge_type)
SameTriple(e, f) ==
    e.src_file = f.src_file /\ e.dst_file = f.dst_file /\ e.edge_type = f.edge_type

\* INSERT OR IGNORE INTO edges, row after row
RECURSIVE InsertOrIgnore(_, _)
InsertOrIgnore(table, rows) ==
    IF Len(rows) = 0 THEN table
    ELSE IF \E i \in 1..Len(table) : SameTriple(table[i], rows[1])
         THEN InsertOrIgnore(table, Tail(rows))
         ELSE InsertOrIgnore(Append(table, rows[1]), Tail(rows))

\* replace_edges without its DELETE FROM edges
ReplaceEdges_Merges(st, edges) == [st EXCEPT !.edges = InsertOrIgnore(st.edges, edges)]

\* replace_edges with a plain INSERT that keeps every row
ReplaceEdges_KeepsDuplicates(st, edges) == [st EXCEPT !.edges = edges]

\* StateStore.replace_edges
ReplaceEdges(st, edges) == [st EXCEPT !.edges = InsertOrIgnore(<< >>, edges)]

\* StateStore.list_edges
ListEdges(st) == st.edges

\* StateStore.get_counts
GetCounts(st) ==
    [indexed_files |-> Cardinality(DOMAIN st.indexed_files),
     symbols |-> BagCardinality(st.symbols),
     imports |-> BagCardinality(st.imports),
     calls |-> BagCardinality(st.calls),
     edges |-> Len(st.edges),
     parse_errors |->
       Cardinality({p \in DOMAIN st.indexed_files : st.indexed_files[p].parse_error /= ""})]

(***************************************************************************)
(* The tree on disk: fs[p] is the file at path p.                          *)
(***************************************************************************)
Absent == [exists |-> FALSE, src |-> "", mtime |-> 0]

File(src, mtime) == [exists |-> TRUE, src |-> src, mtime |-> mtime]

\* an enumeration that keeps the files under excluded directories
IterPythonFiles_NoSkip(fs) ==
    SelectSeq(ScanOrder, LAMBDA p : fs[p].exists)

\* IndexService._iter_python_files: the sorted files with no excluded part
IterPythonFiles(fs) ==
    SelectSeq(ScanOrder, LAMBDA p : fs[p].exists /\ PathParts(p) \cap SKIP_DIRS = {})

\* IndexService._resolve_import_to_file; "" stands for None
ResolveImportToFile(fs, module_name) ==
    IF module_name = << >> THEN ""
    ELSE LET base == JoinWith(module_name, "/")
             candidates == <<base \o ".py", base \o "/__init__.py">>
             found == {i \in 1..Len(candidates) :
                         candidates[i] \in Paths /\ fs[candidates[i]].exists}
         IN IF found = {} THEN ""
            ELSE candidates[CHOOSE i \in found : \A j \in found : i <= j]

Edge(src, dst, edge_type, weight) ==
    [src_file |-> src, dst_file |-> dst, edge_type |-> edge_type, weight |-> weight]

\* the order of sorted() on (src, dst, edge_type, weight) tuples
EdgeTypeRank(t) == IF t = "call" THEN 1 ELSE 2

EdgeLeq(e, f) ==
    LET ke == <<PathRank(e.src_file), PathRank(e.dst_file), EdgeTypeRank(e.edge_type), e.weight>>
        kf == <<PathRank(f.src_file), PathRank(f.dst_file), EdgeTypeRank(f.edge_type), f.weight>>
    IN \/ ke = kf
       \/ \E i \in 1..4 : ke[i] < kf[i] /\ \A j \in 1..(i - 1) : ke[j] = kf[j]

RECURSIVE SortedEdges(_)
SortedEdges(edges) ==
    IF edges = {} THEN << >>
    ELSE LET first == CHOOSE e \in edges : \A f \in edges : EdgeLeq(e, f)
         IN <<first>> \o SortedEdges(edges \ {first})

\* import edges without the dst != src test
ImportEdges_AllowsSelf(st, fs) ==
    {Edge(row.file_path, ResolveImportToFile(fs, row.module_name), "import", ImportWeight) :
       row \in {r \in ListImports(st) : ResolveImportToFile(fs, r.module_name) /= ""}}

\* the import edges of IndexService._rebuild_edges
ImportEdges(st, fs) ==
    {Edge(row.file_path, ResolveImportToFile(fs, row.module_name), "import", ImportWeight) :
       row \in {r \in ListImports(st) :
                  /\ ResolveImportToFile(fs, r.module_name) /= ""
                  /\ ResolveImportToFile(fs, r.module_name) /= r.file_path}}

\* call edges without the dst != src test
CallEdges_AllowsSelf(st) ==
    LET symbols_by_name == SymbolFilesByName(st)
        owners(callee) ==
          IF callee \in DOMAIN symbols_by_name THEN symbols_by_name[callee] ELSE {}
    IN UNION {{Edge(row.file_path, dst, "call", CallWeight) : dst \in owners(row.callee_name)} :
              row \in ListCalls(st)}

\* the call edges of IndexService._rebuild_edges
CallEdges(st) ==
    LET symbols_by_name == SymbolFilesByName(st)
        owners(callee) ==
          IF callee \in DOMAIN symbols_by_name THEN symbols_by_name[callee] ELSE {}
    IN UNION {{Edge(row.file_path, dst, "call", CallWeight) :
                 dst \in {d \in owners(row.callee_name) : d /= row.file_path}} :
              row \in ListCalls(st)}

\* IndexService._rebuild_edges: the store after replace_edges, and len(edges)
RebuildEdges(st, fs) ==
    LET edges == ImportEdges(st, fs) \cup CallEdges(st)
    IN [store |-> ReplaceEdges(st, SortedEdges(edges)),
        edges_total |-> Cardinality(edges)]

(***************************************************************************)
(* refresh_index.                                                          *)
(***************************************************************************)
\* the deletion loop: delete_file for each path of sorted(previous - current)
RECURSIVE DeleteMissing(_, _)
DeleteMissing(st, old_rels) ==
    IF Len(old_rels) = 0 THEN st
    ELSE DeleteMissing(DeleteFile(st, old_rels[1]), Tail(old_rels))

\* skip conditions that forget the hash, or the recorded parse error
IsUnchanged_IgnoresHash(previous, rel, file_hash, mtime) ==
    /\ rel \in DOMAIN previous
    /\ previous[rel].mtime = mtime
    /\ previous[rel].parse_error = ""

IsUnchanged_IgnoresParseError(previous, rel, file_hash, mtime) ==
    /\ rel \in DOMAIN previous
    /\ previous[rel].file_hash = file_hash
    /\ previous[rel].mtime = mtime

\* a skip condition that forgets the modification time
IsUnchanged_IgnoresMtime(previous, rel, file_hash, mtime) ==
    /\ rel \in DOMAIN previous
    /\ previous[rel].file_hash = file_hash
    /\ previous[rel].parse_error = ""

\* the skip condition of the scan loop
IsUnchanged(previous, rel, file_hash, mtime) ==
    /\ rel \in DOMAIN previous
    /\ previous[rel].file_hash = file_hash
    /\ previous[rel].mtime = mtime
    /\ previous[rel].parse_error = ""

\* one pass of the scan loop for file rel; acc carries the store and the
\* counters.  Two records of what the loop did are kept beside them: parsed
\* lists the files _parse_python_file was called on, retried those among them
\* whose previous row had the same hash and mtime.
ScanOne(acc, previous, fs, rel) ==
    LET source == fs[rel].src
        file_hash == Sha256Text(source)
        mtime == fs[rel].mtime
        parsed == ParsePythonFile(source)
    IN IF IsUnchanged(previous, rel, file_hash, mtime)
       THEN [acc EXCEPT !.files_skipped = @ + 1]
       ELSE [store |->
               ReplaceFileAnalysis(
                 UpsertIndexedFile(acc.store, rel, file_hash, mtime, parsed.parse_error),
                 rel, parsed.symbols, parsed.imports, parsed.calls),
             files_indexed |-> acc.files_indexed + 1,
             files_skipped |-> acc.files_skipped,
             parse_errors |-> acc.parse_errors + (IF parsed.parse_error /= "" THEN 1 ELSE 0),
             parsed |-> Append(acc.parsed, rel),
             retried |->
               IF /\ rel \in DOMAIN previous
                  /\ previous[rel].file_hash = file_hash
                  /\ previous[rel].mtime = mtime
               THEN Append(acc.retried, rel) ELSE acc.retried]

RECURSIVE ScanFiles(_, _, _, _)
ScanFiles(acc, previous, fs, rels) ==
    IF Len(rels) = 0 THEN acc
    ELSE ScanFiles(ScanOne(acc, previous, fs, rels[1]), previous, fs, Tail(rels))

\* IndexService.refresh_index: the store it leaves and the stats it returns
\* (elapsed_ms, a wall-clock reading, is left out)
RefreshIndex(st, fs) ==
    LET previous == GetIndexedFileMeta(st)
        current_files == IterPythonFiles(fs)
        old_rels == SelectSeq(AllPaths,
                      LAMBDA p : p \in DOMAIN previous /\ p \notin SeqToSet(current_files))
        after_delete == DeleteMissing(st, old_rels)
        scanned == ScanFiles([store |-> after_delete, files_indexed |-> 0,
                              files_skipped |-> 0, parse_errors |-> 0, parsed |-> << >>,
                              retried |-> << >>],
                             previous, fs, current_files)
        rebuilt == RebuildEdges(scanned.store, fs)
        counts == GetCounts(rebuilt.store)
    IN [store |-> rebuilt.store,
        stats |-> [files_scanned |-> Len(current_files),
                   files_indexed |-> scanned.files_indexed,
                   files_skipped |-> scanned.files_skipped,
                   files_deleted |-> Len(old_rels),
                   parse_errors |-> scanned.parse_errors,
                   symbols_total |-> counts.symbols,
                   edges_total |-> rebuilt.edges_total],
        parsed |-> scanned.parsed,
        retried |-> scanned.retried]

\* IndexService.index_stats
IndexStats(st) == GetCounts(st)

(***************************************************************************)
(* impact_for_files.                                                       *)
(***************************************************************************)
\* A changed_files item: a project-relative path ("relative"), the absolute
\* path of rel under the project root ("absolute"), or an absolute path
\* outside the project root ("outside").
Token(kind, rel) == [kind |-> kind, rel |-> rel]

\* a normalisation loop without the branch for absolute paths
NormalizeItem_RelativeOnly(indexed_files, item) ==
    IF item.kind = "relative" /\ item.rel \in indexed_files THEN item.rel ELSE ""

\* the normalisation loop: the indexed path an item names, "" if none
NormalizeItem(indexed_files, item) ==
    IF item.kind = "relative" THEN
      (IF item.rel \in indexed_files THEN item.rel ELSE "")
    ELSE IF item.kind = "absolute" THEN
      (IF item.rel /= "" /\ item.rel \in indexed_files THEN item.rel ELSE "")
    ELSE ""

\* changed = sorted(set(normalized))
NormalizeChanged(st, changed_files) ==
    LET indexed_files == DOMAIN GetIndexedFileMeta(st)
        normalized == {NormalizeItem(indexed_files, changed_files[i]) :
                         i \in 1..Len(changed_files)} \ {""}
    IN SelectSeq(AllPaths, LAMBDA p : p \in normalized)

\* a reverse adjacency map built from the import edges alone
ReverseNeighbors_ImportsOnly(edges, dst) ==
    LET into == SelectSeq(edges, LAMBDA e : e.dst_file = dst /\ e.edge_type = "import")
    IN [i \in 1..Len(into) |-> into[i].src_file]

\* an adjacency map keyed by src: the files a file depends on
ReverseNeighbors_Forward(edges, dst) ==
    LET out == SelectSeq(edges, LAMBDA e : e.src_file = dst)
    IN [i \in 1..Len(out) |-> out[i].dst_file]

\* reverse[dst]: the src of every edge into dst, in the order of the rows
ReverseNeighbors(edges, dst) ==
    LET into == SelectSeq(edges, LAMBDA e : e.dst_file = dst)
    IN [i \in 1..Len(into) |-> into[i].src_file]

\* an inner loop that assigns the distance on every visit
RECURSIVE VisitNeighbors_Overwrites(_, _, _)
VisitNeighbors_Overwrites(bfs, deps, cur_dist) ==
    IF Len(deps) = 0 THEN bfs
    ELSE LET dep == deps[1]
         IN VisitNeighbors_Overwrites(
              [distance |-> [p \in DOMAIN bfs.distance \cup {dep} |->
                               IF p = dep /\ (p \notin DOMAIN bfs.distance \/ bfs.distance[p] /= 0)
                               THEN cur_dist + 1 ELSE bfs.distance[p]],
               frontier |-> IF dep \in DOMAIN bfs.distance THEN bfs.frontier
                            ELSE Append(bfs.frontier, dep)],
              Tail(deps), cur_dist)

\* the inner loop of the traversal: first visit assigns the distance
RECURSIVE VisitNeighbors(_, _, _)
VisitNeighbors(bfs, deps, cur_dist) ==
    IF Len(deps) = 0 THEN bfs
    ELSE LET dep == deps[1]
         IN IF dep \in DOMAIN bfs.distance
            THEN VisitNeighbors(bfs, Tail(deps), cur_dist)
            ELSE VisitNeighbors(
                   [distance |-> [p \in DOMAIN bfs.distance \cup {dep} |->
                                    IF p = dep THEN cur_dist + 1 ELSE bfs.distance[p]],
                    frontier |-> Append(bfs.frontier, dep)],
                   Tail(deps), cur_dist)

\* a while loop that still expands the nodes at distance max_depth
RECURSIVE Traverse_ExpandsAtLimit(_, _, _)
Traverse_ExpandsAtLimit(bfs, edges, max_depth) ==
    IF Len(bfs.frontier) = 0 THEN bfs.distance
    ELSE LET cur == Head(bfs.frontier)
             cur_dist == bfs.distance[cur]
             popped == [bfs EXCEPT !.frontier = Tail(bfs.frontier)]
         IN IF cur_dist > max_depth
            THEN Traverse_ExpandsAtLimit(popped, edges, max_depth)
            ELSE Traverse_ExpandsAtLimit(
                   VisitNeighbors(popped, ReverseNeighbors(edges, cur), cur_dist),
                   edges, max_depth)

\* the while loop over the frontier deque
RECURSIVE Traverse(_, _, _)
Traverse(bfs, edges, max_depth) ==
    IF Len(bfs.frontier) = 0 THEN bfs.distance
    ELSE LET cur == Head(bfs.frontier)
             cur_dist == bfs.distance[cur]
             popped == [bfs EXCEPT !.frontier = Tail(bfs.frontier)]
         IN IF cur_dist >= max_depth
            THEN Traverse(popped, edges, max_depth)
            ELSE Traverse(VisitNeighbors(popped, ReverseNeighbors(edges, cur), cur_dist),
                          edges, max_depth)

\* the distance map after seeding and traversal
StaticDistance(changed, edges, max_depth) ==
    Traverse([distance |-> [p \in SeqToSet(changed) |-> 0], frontier |-> changed],
             edges, max_depth)

\* What _build_cognitive_world returns.  The world model is an external
\* library; it is either unavailable (with the reason) or answers
\* predict_consequence(subject) with a list of (effect, strength) pairs.
\* An effect key is its text split at the length of "file:".
NoWorld(reason) == [enabled |-> FALSE, error |-> reason, consequences |-> << >>]

World(consequences) == [enabled |-> TRUE, error |-> "", consequences |-> consequences]

Prediction(prefix, rest, strength) ==
    [effect |-> [prefix |-> prefix, rest |-> rest], strength |-> strength]

\* a prediction loop that does not look the effect up in the indexed files
RECURSIVE ApplyConsequences_AnyPath(_, _, _)
ApplyConsequences_AnyPath(acc, consequences, indexed_files) ==
    IF Len(consequences) = 0 THEN acc
    ELSE LET c == consequences[1]
             predicted == c.effect.rest
         IN IF c.effect.prefix /= "file:"
            THEN ApplyConsequences_AnyPath(acc, Tail(consequences), indexed_files)
            ELSE ApplyConsequences_AnyPath(
                   [predicted_set |-> acc.predicted_set \cup {predicted},
                    predicted_strength |->
                      [p \in DOMAIN acc.predicted_strength \cup {predicted} |->
                         IF p = predicted THEN
                           Max(c.strength,
                               IF predicted \in DOMAIN acc.predicted_strength
                               THEN acc.predicted_strength[predicted] ELSE 0)
                         ELSE acc.predicted_strength[p]],
                    distance |->
                      [p \in DOMAIN acc.distance \cup {predicted} |->
                         IF p = predicted
                              /\ (predicted \notin DOMAIN acc.distance \/ acc.distance[predicted] > 1)
                         THEN 1 ELSE acc.distance[p]]],
                   Tail(consequences), indexed_files)

\* a prediction loop that leaves the distance of a file the traversal reached
RECURSIVE ApplyConsequences_KeepsGraphDistance(_, _, _)
ApplyConsequences_KeepsGraphDistance(acc, consequences, indexed_files) ==
    IF Len(consequences) = 0 THEN acc
    ELSE LET c == consequences[1]
             predicted == c.effect.rest
         IN IF c.effect.prefix /= "file:" \/ predicted \notin indexed_files
            THEN ApplyConsequences_KeepsGraphDistance(acc, Tail(consequences), indexed_files)
            ELSE ApplyConsequences_KeepsGraphDistance(
                   [predicted_set |-> acc.predicted_set \cup {predicted},
                    predicted_strength |->
                      [p \in DOMAIN acc.predicted_strength \cup {predicted} |->
                         IF p = predicted THEN
                           Max(c.strength,
                               IF predicted \in DOMAIN acc.predicted_strength
                               THEN acc.predicted_strength[predicted] ELSE 0)
                         ELSE acc.predicted_strength[p]],
                    distance |->
                      [p \in DOMAIN acc.distance \cup {predicted} |->
                         IF p = predicted /\ predicted \notin DOMAIN acc.distance
                         THEN 1 ELSE acc.distance[p]]],
                   Tail(consequences), indexed_files)

\* the prediction loop for one changed file
RECURSIVE ApplyConsequences(_, _, _)
ApplyConsequences(acc, consequences, indexed_files) ==
    IF Len(consequences) = 0 THEN acc
    ELSE LET c == consequences[1]
             predicted == c.effect.rest
         IN IF c.effect.prefix /= "file:" \/ predicted \notin indexed_files
            THEN ApplyConsequences(acc, Tail(consequences), indexed_files)
            ELSE ApplyConsequences(
                   [predicted_set |-> acc.predicted_set \cup {predicted},
                    predicted_strength |->
                      [p \in DOMAIN acc.predicted_strength \cup {predicted} |->
                         IF p = predicted THEN
                           Max(c.strength,
                               IF predicted \in DOMAIN acc.predicted_strength
                               THEN acc.predicted_strength[predicted] ELSE 0)
                         ELSE acc.predicted_strength[p]],
                    distance |->
                      [p \in DOMAIN acc.distance \cup {predicted} |->
                         IF p = predicted
                              /\ (predicted \notin DOMAIN acc.distance \/ acc.distance[predicted] > 1)
                         THEN 1 ELSE acc.distance[p]]],
                   Tail(consequences), indexed_files)

\* the prediction loop over the changed files
RECURSIVE ApplyWorld(_, _, _, _)
ApplyWorld(acc, world, changed, indexed_files) ==
    IF Len(changed) = 0 THEN acc
    ELSE ApplyWorld(ApplyConsequences(acc, world.consequences[changed[1]], indexed_files),
                    world, Tail(changed), indexed_files)

\* round-half-even of n / d for d > 0: Python's round() of a float that is
\* exact or not a tie
RoundDiv(n, d) ==
    LET a == IF n < 0 THEN -n ELSE n
        q == a \div d
        r == a % d
        up == IF 2 * r > d \/ (2 * r = d /\ q % 2 = 1) THEN q + 1 ELSE q
    IN IF n < 0 THEN -up ELSE up

\* round(strength, 3) in thousandths, strength in ten-thousandths
Round3(strength) == RoundDiv(strength, 10)

\* confidence by distance
DistanceKind(dist) ==
    IF dist = 0 THEN "changed" ELSE IF dist = 1 THEN "direct" ELSE "transitive"

\* transitive confidence divided by the distance of the parent
DistanceConfidence_OffByOne(dist) ==
    IF dist = 0 THEN ChangedConfidence
    ELSE IF dist = 1 THEN DirectConfidence
    ELSE Max(ConfidenceFloor, RoundDiv(TransitiveNumerator, dist - 1))

DistanceConfidence(dist) ==
    IF dist = 0 THEN ChangedConfidence
    ELSE IF dist = 1 THEN DirectConfidence
    ELSE Max(ConfidenceFloor, RoundDiv(TransitiveNumerator, dist))

\* an entry whose confidence is the rounded strength alone when only the
\* world model predicted the file
ImpactEntry_UsesStrength(file_path, dist, static_distance, predicted_set, predicted_strength) ==
    LET confidence == DistanceConfidence(dist)
        strength == IF file_path \in DOMAIN predicted_strength
                    THEN predicted_strength[file_path] ELSE DefaultStrength
        in_static == file_path \in DOMAIN static_distance
        in_predicted == file_path \in predicted_set
    IN [file_path |-> file_path,
        distance |-> dist,
        impact_kind |-> DistanceKind(dist),
        confidence |->
          IF dist /= 0 /\ in_predicted /\ ~in_static
          THEN Round3(strength) ELSE confidence,
        impact_source |->
          IF dist = 0 THEN "changed"
          ELSE IF in_static /\ in_predicted THEN "graph+world_model"
          ELSE IF in_predicted THEN "world_model"
          ELSE "graph"]

\* one entry of impacted
ImpactEntry(file_path, dist, static_distance, predicted_set, predicted_strength) ==
    LET confidence == DistanceConfidence(dist)
        strength == IF file_path \in DOMAIN predicted_strength
                    THEN predicted_strength[file_path] ELSE DefaultStrength
        in_static == file_path \in DOMAIN static_distance
        in_predicted == file_path \in predicted_set
    IN [file_path |-> file_path,
        distance |-> dist,
        impact_kind |-> DistanceKind(dist),
        confidence |->
          IF dist /= 0 /\ in_predicted /\ ~in_static
          THEN Max(confidence, Round3(strength)) ELSE confidence,
        impact_source |->
          IF dist = 0 THEN "changed"
          ELSE IF in_static /\ in_predicted THEN "graph+world_model"
          ELSE IF in_predicted THEN "world_model"
          ELSE "graph"]

\* the items sorted by path alone
RECURSIVE SortedByDistance_ByPath(_, _)
SortedByDistance_ByPath(distance, files) ==
    IF files = {} THEN << >>
    ELSE LET first == CHOOSE p \in files : \A q \in files : PathRank(p) <= PathRank(q)
         IN <<first>> \o SortedByDistance_ByPath(distance, files \ {first})

\* sorted(distance.items(), key=lambda x: (x[1], x[0]))
RECURSIVE SortedByDistance(_, _)
SortedByDistance(distance, files) ==
    IF files = {} THEN << >>
    ELSE LET first == CHOOSE p \in files : \A q \in files :
                        \/ distance[p] < distance[q]
                        \/ distance[p] = distance[q] /\ PathRank(p) <= PathRank(q)
         IN <<first>> \o SortedByDistance(distance, files \ {first})

\* IndexService.impact_for_files
ImpactForFiles(st, changed_files, max_depth, world) ==
    LET indexed_files == DOMAIN GetIndexedFileMeta(st)
        changed == NormalizeChanged(st, changed_files)
        static_distance == StaticDistance(changed, ListEdges(st), max_depth)
        start == [predicted_set |-> {}, predicted_strength |-> << >>,
                  distance |-> static_distance]
        final == IF world.enabled THEN ApplyWorld(start, world, changed, indexed_files)
                 ELSE start
        order == SortedByDistance(final.distance, DOMAIN final.distance)
        impacted == [i \in 1..Len(order) |->
                       ImpactEntry(order[i], final.distance[order[i]], static_distance,
                                   final.predicted_set, final.predicted_strength)]
    IN [changed_files |-> changed,
        impacted |-> impacted,
        direct_count |->
          Cardinality({i \in 1..Len(impacted) : impacted[i].impact_kind = "direct"}),
        transitive_count |->
          Cardinality({i \in 1..Len(impacted) : impacted[i].impact_kind = "transitive"}),
        world_model |-> [enabled |-> world.enabled, error |-> world.error],
        world_predicted_files |-> SelectSeq(AllPaths, LAMBDA p : p \in final.predicted_set),
        max_depth |-> max_depth]

(***************************************************************************)
(* The state: the tree on disk, the store, and what the last operation     *)
(* was and returned.                                                       *)
(***************************************************************************)
\* fs is the tree on disk, store the committed content of state.db, txn the
\* open transaction of the service's connection, run the refresh_index()
\* call in progress, result what the last operation was and returned.
VARIABLES fs, store, txn, run, result

vars == <<fs, store, txn, run, result>>

\* no statement has run since the last commit
NoTxn == [open |-> FALSE, view |-> EmptyStore]

\* the analysis of no file
NoAnalysis == [symbols |-> << >>, imports |-> {}, calls |-> << >>, parse_error |-> ""]

\* no refresh_index() call is in progress
Idle ==
    [pc |-> "idle", previous |-> << >>, old_rels |-> << >>, rels |-> << >>,
     rel |-> "", analysis |-> NoAnalysis, edges |-> << >>,
     edges_before |-> << >>, edges_total |-> 0, files_scanned |-> 0,
     files_deleted |-> 0, files_indexed |-> 0, files_skipped |-> 0,
     parse_errors |-> 0]

Mtimes == 0..MaxMtime

\* the texts a path of the edited tree may hold
TextsOf(p) ==
    CASE p = "a.py" -> {"a_import_b", "broken"}
      [] p = "b.py" -> {"b_def_foo", "b_import_c"}
      [] p = "c.py" -> {"c_from_b"}
      [] OTHER -> {}

EditedPaths == {p \in Paths : TextsOf(p) /= {}}

EmptyTree == [p \in Paths |-> Absent]

\* IndexService.__init__ on an empty project directory
Init ==
    /\ fs = EmptyTree
    /\ store = EmptyStore
    /\ txn = NoTxn
    /\ run = Idle
    /\ result = [op |-> "init"]

\* a file is created or overwritten
WriteFile ==
    \E p \in EditedPaths, m \in Mtimes :
      \E src \in TextsOf(p) :
        /\ ~fs[p].exists \/ fs[p].src /= src
        /\ fs' = [fs EXCEPT ![p] = File(src, m)]
        /\ result' = [op |-> "edit"]
        /\ UNCHANGED <<store, txn, run>>

\* a file's modification time changes, its bytes do not
TouchFile ==
    \E p \in EditedPaths, m \in Mtimes :
      /\ fs[p].exists
      /\ fs[p].mtime /= m
      /\ fs' = [fs EXCEPT ![p].mtime = m]
      /\ result' = [op |-> "edit"]
      /\ UNCHANGED <<store, txn, run>>

\* a file is removed
RemoveFile ==
    \E p \in EditedPaths :
      /\ fs[p].exists
      /\ fs' = [fs EXCEPT ![p] = Absent]
      /\ result' = [op |-> "edit"]
      /\ UNCHANGED <<store, txn, run>>

\* refresh_index() runs to completion
Refresh ==
    LET r == RefreshIndex(store, fs)
    IN /\ store' = r.store
       /\ result' = [op |-> "refresh", stats |-> r.stats, parsed |-> r.parsed,
                     retried |-> r.retried]
       /\ UNCHANGED <<fs, txn, run>>

Next == WriteFile \/ TouchFile \/ RemoveFile \/ Refresh

Spec == Init /\ [][Next]_vars

(***************************************************************************)
(* Impact queries on fixed trees: the tree is chosen at the start and      *)
(* indexed by refresh_index(); impact_for_files() is then asked about      *)
(* every bounded input, with and without the world model.                  *)
(***************************************************************************)
QueryTextsOf(p) ==
    CASE p = "a.py" -> {"a_import_b"}
      [] p = "b.py" -> {"b_def_foo", "b_import_c"}
      [] p = "build/b.py" -> {"", "gen_def_foo"}
      [] p = "c.py" -> {"", "c_from_b", "c_import_d"}
      [] p = "d.py" -> {"", "d_def_qux", "d_import_a"}
      [] p = "e.py" -> {"", "e_import_a"}
      [] OTHER -> {""}

QueryTrees ==
    {[p \in Paths |-> IF texts[p] = "" THEN Absent ELSE File(texts[p], 0)] :
       texts \in {t \in [Paths -> {"", "a_import_b", "b_def_foo", "b_import_c",
                                   "gen_def_foo", "c_from_b", "c_import_d",
                                   "d_def_qux", "d_import_a", "e_import_a"}] :
                    \A p \in Paths : t[p] \in QueryTextsOf(p)}}

Tokens ==
    {Token("relative", "b.py"), Token("relative", "d.py"), Token("relative", "zzz.py"),
     Token("absolute", "c.py")}

SeqsUpTo(S, n) == UNION {[1..k -> S] : k \in 0..n}

ChangedInputs == SeqsUpTo(Tokens, MaxChanged)

DepthArgs == (-1..MaxDepthArg) \cup {DefaultMaxDepth}

Strengths == {4000, 9004, 15000}

Predictions ==
    {Prediction("file:", "a.py", s) : s \in Strengths}
      \cup {Prediction("file:", "zzz.py", DefaultStrength),
            Prediction("symbol:", "foo", DefaultStrength)}

Worlds ==
    {NoWorld("disabled by config")}
      \cup {World([p \in Paths |-> lst]) : lst \in SeqsUpTo(Predictions, MaxPredictions)}

InitQuery ==
    /\ fs \in QueryTrees
    /\ store = EmptyStore
    /\ txn = NoTxn
    /\ run = Idle
    /\ result = [op |-> "init"]

\* impact_for_files(changed_files, max_depth) runs to completion.  A query
\* only reads the store, so the queries are asked one by one on the state a
\* refresh (or the construction) left.
Impact ==
    \E changed_files \in ChangedInputs, max_depth \in DepthArgs, world \in Worlds :
      /\ result.op /= "impact"
      /\ result' = [op |-> "impact",
                    report |-> ImpactForFiles(store, changed_files, max_depth, world)]
      /\ UNCHANGED <<fs, store, txn, run>>

NextQuery == Refresh \/ Impact

SpecQuery == InitQuery /\ [][NextQuery]_vars

(***************************************************************************)
(* Refreshes on trees with a module and a package of one name, several     *)
(* owners of one symbol name, self-imports and imports of modules outside  *)
(* the project, and a file that is moved under an excluded directory.      *)
(***************************************************************************)
EdgeTextsOf(p) ==
    CASE p = "a.py" -> {"a_import_d", "e_import_a"}
      [] p = "b.py" -> {"", "b_def_foo", "b_import_c"}
      [] p = "c.py" -> {"", "c_from_b", "c_only_from_b", "c_import_d"}
      [] p = "d.py" -> {"", "c_import_d", "d_import_a", "gen_def_foo"}
      [] p = "d/__init__.py" -> {"", "gen_def_foo"}
      [] OTHER -> {""}

EdgePaths == {p \in Paths : EdgeTextsOf(p) /= {""}}

EdgeTrees ==
    {[p \in Paths |-> IF p \notin EdgePaths \/ texts[p] = "" THEN Absent
                      ELSE File(texts[p], 0)] :
       texts \in {t \in [EdgePaths -> UNION {EdgeTextsOf(p) : p \in EdgePaths}] :
                    \A p \in EdgePaths : t[p] \in EdgeTextsOf(p)}}

InitEdges ==
    /\ fs \in EdgeTrees
    /\ store = EmptyStore
    /\ txn = NoTxn
    /\ run = Idle
    /\ result = [op |-> "init"]

\* b.py is renamed to build/b.py, under an excluded directory
MoveUnderExcluded ==
    /\ fs["b.py"].exists
    /\ ~fs["build/b.py"].exists
    /\ fs' = [fs EXCEPT !["b.py"] = Absent, !["build/b.py"] = fs["b.py"]]
    /\ result' = [op |-> "move", src |-> "b.py", dst |-> "build/b.py",
                  indexed |-> "b.py" \in DOMAIN store.indexed_files]
    /\ UNCHANGED <<store, txn, run>>

\* impact_for_files(["b.py"], max_depth) after a refresh, world model
\* disabled
ImpactOfChangedModule ==
    /\ result.op = "refresh"
    /\ \E max_depth \in {1, DefaultMaxDepth} :
         result' = [op |-> "impact",
                    report |-> ImpactForFiles(store, <<Token("relative", "b.py")>>, max_depth,
                                              NoWorld("disabled by config"))]
    /\ UNCHANGED <<fs, store, txn, run>>

NextEdges == Refresh \/ MoveUnderExcluded \/ ImpactOfChangedModule

SpecEdges == InitEdges /\ [][NextEdges]_vars

(***************************************************************************)
(* Impact queries with their arguments on record: the tokens given, the    *)
(* world model built, and the world models that raise.                     *)
(***************************************************************************)
OracleTextsOf(p) ==
    CASE p = "a.py" -> {"a_import_b"}
      [] p = "b.py" -> {"b_def_foo", "b_import_c"}
      [] p = "c.py" -> {"", "c_import_d"}
      [] p = "d.py" -> {"", "d_def_qux"}
      [] OTHER -> {""}

OraclePaths == {p \in Paths : OracleTextsOf(p) /= {""}}

OracleTrees ==
    {[p \in Paths |-> IF p \notin OraclePaths \/ texts[p] = "" THEN Absent
                      ELSE File(texts[p], 0)] :
       texts \in {t \in [OraclePaths -> UNION {OracleTextsOf(p) : p \in OraclePaths}] :
                    \A p \in OraclePaths : t[p] \in OracleTextsOf(p)}}

\* the reasons _build_cognitive_world gives for returning no world
NoWorldReasons ==
    {"disabled by config", "cognitive import failed", "world model init failed"}

\* effects naming a.py, which every tree has, d.py, which some trees lack,
\* and a symbol
OraclePredictions ==
    {Prediction("file:", "a.py", s) : s \in Strengths}
      \cup {Prediction("file:", "d.py", DefaultStrength),
            Prediction("symbol:", "foo", DefaultStrength)}

OracleWorlds ==
    {NoWorld(reason) : reason \in NoWorldReasons}
      \cup {World([p \in Paths |-> lst]) : lst \in SeqsUpTo(OraclePredictions, MaxPredictions)}

\* the calls into a constructed world model that can raise
Faults == {"add_fact", "predict_consequence"}

\* whether impact_for_files raises when the given call of the world model
\* raises: add_fact is called for a stored edge or symbol, and
\* predict_consequence for a changed file
ImpactRaises(st, changed_files, fault) ==
    IF fault = "add_fact"
    THEN ListEdges(st) /= << >> \/ st.symbols /= EmptyBag
    ELSE NormalizeChanged(st, changed_files) /= << >>

InitOracle ==
    /\ fs \in OracleTrees
    /\ store = EmptyStore
    /\ txn = NoTxn
    /\ run = Idle
    /\ result = [op |-> "init"]

\* refresh_index() before the queries
RefreshBeforeQuery ==
    /\ result.op = "init"
    /\ Refresh

\* impact_for_files(changed_files, max_depth) with the world model that
\* _build_cognitive_world returned
ImpactRecorded ==
    /\ result.op \in {"init", "refresh"}
    /\ \E changed_files \in ChangedInputs, max_depth \in DepthArgs, world \in OracleWorlds :
         result' = [op |-> "impact",
                    report |-> ImpactForFiles(store, changed_files, max_depth, world),
                    changed_files |-> changed_files,
                    world |-> world]
    /\ UNCHANGED <<fs, store, txn, run>>

\* impact_for_files(changed_files, max_depth) with a world model that was
\* constructed and raises in one of its calls; where that call is not made
\* the world model predicts nothing
ImpactWithFault ==
    /\ result.op \in {"init", "refresh"}
    /\ \E changed_files \in ChangedInputs, max_depth \in DepthArgs, fault \in Faults :
         result' =
           IF ImpactRaises(store, changed_files, fault)
           THEN [op |-> "impact_raised", fault |-> fault]
           ELSE [op |-> "impact",
                 report |-> ImpactForFiles(store, changed_files, max_depth,
                                           World([p \in Paths |-> << >>])),
                 changed_files |-> changed_files,
                 world |-> World([p \in Paths |-> << >>])]
    /\ UNCHANGED <<fs, store, txn, run>>

\* other edge tables with the (src, dst) pairs of the given one: the rows
\* listed backwards, rotated, with the other edge type and weight, and one
\* row for each pair
Reversed(edges) == [i \in 1..Len(edges) |-> edges[Len(edges) + 1 - i]]

Rotated(edges, k) == [i \in 1..Len(edges) |-> edges[((i + k - 1) % Len(edges)) + 1]]

Retyped(edges) ==
    [i \in 1..Len(edges) |->
       IF edges[i].edge_type = "import"
       THEN Edge(edges[i].src_file, edges[i].dst_file, "call", CallWeight)
       ELSE Edge(edges[i].src_file, edges[i].dst_file, "import", ImportWeight)]

OnePerPair(edges) ==
    LET first == {i \in 1..Len(edges) :
                    \A j \in 1..(i - 1) :
                      edges[j].src_file /= edges[i].src_file
                        \/ edges[j].dst_file /= edges[i].dst_file}
    IN SelectSeq([i \in 1..Len(edges) |-> [row |-> edges[i], keep |-> i \in first]],
                 LAMBDA x : x.keep)

Relistings(edges) ==
    {Reversed(edges), Retyped(edges), Reversed(Retyped(edges))}
      \cup {Rotated(edges, k) : k \in 1..(Len(edges) - 1)}
      \cup {[i \in 1..Len(OnePerPair(edges)) |-> OnePerPair(edges)[i].row]}

\* impact_for_files(changed_files, max_depth), world model disabled, on the
\* store and on a store with the same indexed files whose edges table
\* lists the same pairs otherwise
ImpactOnRelistedEdges ==
    /\ result.op \in {"init", "refresh"}
    /\ \E changed_files \in ChangedInputs, max_depth \in DepthArgs,
          edges \in Relistings(store.edges) :
         result' = [op |-> "impact_pair",
                    report |-> ImpactForFiles(store, changed_files, max_depth,
                                              NoWorld("disabled by config")),
                    other |-> ImpactForFiles([store EXCEPT !.edges = edges], changed_files,
                                             max_depth, NoWorld("disabled by config")),
                    edges |-> store.edges,
                    other_edges |-> edges]
    /\ UNCHANGED <<fs, store, txn, run>>

NextOracle ==
    RefreshBeforeQuery \/ ImpactRecorded \/ ImpactWithFault \/ ImpactOnRelistedEdges

SpecOracle == InitOracle /\ [][NextOracle]_vars

\* the paths with an indexed_files row
IndexedPaths(st) == DOMAIN st.indexed_files

\* the rows and edges of the store that name path p
RowsOf(st, p) ==
    [indexed |-> p \in IndexedPaths(st),
     symbols |-> {r \in BagToSet(st.symbols) : r.file_path = p},
     imports |-> {r \in BagToSet(st.imports) : r.file_path = p},
     calls |-> {r \in BagToSet(st.calls) : r.file_path = p},
     edges |-> {e \in SeqToSet(st.edges) : e.src_file = p \/ e.dst_file = p}]

NoRows == [indexed |-> FALSE, symbols |-> {}, imports |-> {}, calls |-> {}, edges |-> {}]

(***************************************************************************)
(* refresh_index() statement by statement.  The connection runs in the     *)
(* sqlite3 module's default mode: the first DELETE or INSERT after a       *)
(* commit opens a transaction, commit() makes every statement since then   *)
(* durable, and no method rolls back.  store is the committed database,    *)
(* which is what another connection reads and what a new process finds;    *)
(* reads on the service's own connection see the open transaction too.     *)
(* The tree changes between the calls of refresh_index().                  *)
(***************************************************************************)
\* what a SELECT on the service's connection reads
View == IF txn.open THEN txn.view ELSE store

\* a statement of the service's connection leaves the view v
Statement(v) == [open |-> TRUE, view |-> v]

\* the texts a path of the tree may hold between two calls
StepTextsOf(p) ==
    CASE p = "a.py" -> {"a_import_b", "c_import_d", "broken"}
      [] p = "b.py" -> {"b_def_foo", "b_import_c"}
      [] OTHER -> {}

StepPaths == {p \in Paths : StepTextsOf(p) /= {}}

\* a file is created or overwritten while no call is in progress
WriteBetweenCalls ==
    \E p \in StepPaths :
      \E src \in StepTextsOf(p) :
        /\ run.pc = "idle"
        /\ ~fs[p].exists \/ fs[p].src /= src
        /\ fs' = [fs EXCEPT ![p] = File(src, 0)]
        /\ result' = [op |-> "edit"]
        /\ UNCHANGED <<store, txn, run>>

\* a file is removed while no call is in progress
RemoveBetweenCalls ==
    \E p \in StepPaths :
      /\ run.pc = "idle"
      /\ fs[p].exists
      /\ fs' = [fs EXCEPT ![p] = Absent]
      /\ result' = [op |-> "edit"]
      /\ UNCHANGED <<store, txn, run>>

\* refresh_index() is called: previous, current_files, the counters
BeginRefresh ==
    /\ run.pc = "idle"
    /\ LET previous == GetIndexedFileMeta(View)
           current_files == IterPythonFiles(fs)
           old_rels == SelectSeq(AllPaths,
                         LAMBDA p : p \in DOMAIN previous /\ p \notin SeqToSet(current_files))
       IN run' = [Idle EXCEPT !.pc = IF old_rels = << >> THEN "scan" ELSE "delete",
                              !.previous = previous,
                              !.old_rels = old_rels,
                              !.rels = current_files,
                              !.files_scanned = Len(current_files)]
    /\ result' = [op |-> "running"]
    /\ UNCHANGED <<fs, store, txn>>

\* delete_file(old_rel): its five DELETE statements
DeleteFileStatements ==
    /\ run.pc = "delete"
    /\ txn' = Statement(DeleteFile(View, run.old_rels[1]))
    /\ run' = [run EXCEPT !.pc = "delete_commit"]
    /\ UNCHANGED <<fs, store, result>>

\* delete_file(old_rel): its commit, and files_deleted += 1
DeleteFileCommit ==
    /\ run.pc = "delete_commit"
    /\ store' = View
    /\ txn' = NoTxn
    /\ run' = [run EXCEPT !.pc = IF Len(run.old_rels) = 1 THEN "scan" ELSE "delete",
                          !.old_rels = Tail(run.old_rels),
                          !.files_deleted = @ + 1]
    /\ UNCHANGED <<fs, result>>

\* the scan loop skips a file
SkipFile ==
    /\ run.pc = "scan"
    /\ run.rels /= << >>
    /\ LET rel == run.rels[1]
       IN /\ IsUnchanged(run.previous, rel, Sha256Text(fs[rel].src), fs[rel].mtime)
          /\ run' = [run EXCEPT !.rels = Tail(run.rels), !.files_skipped = @ + 1]
    /\ UNCHANGED <<fs, store, txn, result>>

\* the scan loop parses a file and calls upsert_indexed_file, which commits
UpsertFile ==
    /\ run.pc = "scan"
    /\ run.rels /= << >>
    /\ LET rel == run.rels[1]
           file_hash == Sha256Text(fs[rel].src)
           parsed == ParsePythonFile(fs[rel].src)
       IN /\ ~IsUnchanged(run.previous, rel, file_hash, fs[rel].mtime)
          /\ store' = UpsertIndexedFile(View, rel, file_hash, fs[rel].mtime,
                                        parsed.parse_error)
          /\ run' = [run EXCEPT !.pc = "replace", !.rel = rel, !.analysis = parsed]
    /\ txn' = NoTxn
    /\ UNCHANGED <<fs, result>>

\* replace_file_analysis(rel, ...): its three DELETE statements
ReplaceDeleteRows ==
    /\ run.pc = "replace"
    /\ txn' = Statement([View EXCEPT !.symbols = DeleteRowsOf(@, run.rel),
                                      !.imports = DeleteRowsOf(@, run.rel),
                                      !.calls = DeleteRowsOf(@, run.rel)])
    /\ run' = [run EXCEPT !.pc = "insert_symbols"]
    /\ UNCHANGED <<fs, store, result>>

\* replace_file_analysis(rel, ...): INSERT INTO symbols
InsertSymbols ==
    /\ run.pc = "insert_symbols"
    /\ LET symbols == run.analysis.symbols
       IN txn' = Statement([View EXCEPT !.symbols =
                   @ (+) SeqToBag([i \in 1..Len(symbols) |-> SymbolRow(run.rel, symbols[i])])])
    /\ run' = [run EXCEPT !.pc = "insert_imports"]
    /\ UNCHANGED <<fs, store, result>>

\* replace_file_analysis(rel, ...): INSERT INTO imports
InsertImports ==
    /\ run.pc = "insert_imports"
    /\ txn' = Statement([View EXCEPT !.imports =
                @ (+) SetToBag({ImportRow(run.rel, m) : m \in run.analysis.imports})])
    /\ run' = [run EXCEPT !.pc = "insert_calls"]
    /\ UNCHANGED <<fs, store, result>>

\* replace_file_analysis(rel, ...): INSERT INTO calls
InsertCalls ==
    /\ run.pc = "insert_calls"
    /\ LET calls == run.analysis.calls
       IN txn' = Statement([View EXCEPT !.calls =
                   @ (+) SeqToBag([i \in 1..Len(calls) |-> CallRow(run.rel, calls[i])])])
    /\ run' = [run EXCEPT !.pc = "replace_commit"]
    /\ UNCHANGED <<fs, store, result>>

\* replace_file_analysis(rel, ...): its commit, then the counters
ReplaceCommit ==
    /\ run.pc = "replace_commit"
    /\ store' = View
    /\ txn' = NoTxn
    /\ run' = [run EXCEPT !.pc = "scan",
                          !.rels = Tail(run.rels),
                          !.rel = "",
                          !.analysis = NoAnalysis,
                          !.files_indexed = @ + 1,
                          !.parse_errors =
                            @ + (IF run.analysis.parse_error /= "" THEN 1 ELSE 0)]
    /\ UNCHANGED <<fs, result>>

\* _rebuild_edges: the edges of the stored facts, then the DELETE FROM edges
\* of replace_edges
ReplaceEdgesDelete ==
    /\ run.pc = "scan"
    /\ run.rels = << >>
    /\ LET edges == ImportEdges(View, fs) \cup CallEdges(View)
       IN run' = [run EXCEPT !.pc = "edges_insert",
                             !.edges = SortedEdges(edges),
                             !.edges_before = store.edges,
                             !.edges_total = Cardinality(edges)]
    /\ txn' = Statement([View EXCEPT !.edges = << >>])
    /\ UNCHANGED <<fs, store, result>>

\* replace_edges: INSERT OR IGNORE of the next row
ReplaceEdgesInsertRow ==
    /\ run.pc = "edges_insert"
    /\ run.edges /= << >>
    /\ txn' = Statement([View EXCEPT !.edges = InsertOrIgnore(@, <<run.edges[1]>>)])
    /\ run' = [run EXCEPT !.edges = Tail(run.edges)]
    /\ UNCHANGED <<fs, store, result>>

\* replace_edges: its commit; refresh_index() reads the counts and returns
ReplaceEdgesCommit ==
    /\ run.pc = "edges_insert"
    /\ run.edges = << >>
    /\ store' = View
    /\ txn' = NoTxn
    /\ run' = Idle
    /\ result' = [op |-> "refresh",
                  stats |-> [files_scanned |-> run.files_scanned,
                             files_indexed |-> run.files_indexed,
                             files_skipped |-> run.files_skipped,
                             files_deleted |-> run.files_deleted,
                             parse_errors |-> run.parse_errors,
                             symbols_total |-> GetCounts(View).symbols,
                             edges_total |-> run.edges_total]]
    /\ UNCHANGED fs

\* the symbol, import and call rows of a path
FactRows(st, p) ==
    [symbols |-> st.symbols (-) DeleteRowsOf(st.symbols, p),
     imports |-> st.imports (-) DeleteRowsOf(st.imports, p),
     calls |-> st.calls (-) DeleteRowsOf(st.calls, p)]

\* replace_file_analysis raises (a storage error, an interrupt) before its
\* commit: the exception leaves refresh_index(), the service and its
\* connection stay in use
ReplaceFileAnalysisRaises ==
    /\ run.pc \in {"replace", "insert_symbols", "insert_imports", "insert_calls",
                   "replace_commit"}
    /\ run' = Idle
    /\ result' = [op |-> "raised", file_path |-> run.rel, at |-> run.pc,
                  before |-> FactRows(store, run.rel)]
    /\ UNCHANGED <<fs, store, txn>>

\* the process ends, or the service is closed, and a new IndexService opens
\* the database: what was not committed is gone
Restart ==
    /\ run.pc /= "idle" \/ txn.open
    /\ txn' = NoTxn
    /\ run' = Idle
    /\ result' = [op |-> "restart"]
    /\ UNCHANGED <<fs, store>>

\* a reader that shares the connection of the service
ReaderView_SameConnection == View

\* what a SELECT on another connection reads: the last commit
ReaderView == store

\* list_edges() on a second StateStore of the same database, while
\* replace_edges runs or after refresh_index() returned
ReadEdges ==
    /\ \/ run.pc = "edges_insert"
       \/ run.pc = "idle" /\ result.op = "refresh"
    /\ result.op /= "list_edges"
    /\ result' = [op |-> "list_edges", rows |-> ListEdges(ReaderView),
                  during |-> run.pc, before |-> run.edges_before]
    /\ UNCHANGED <<fs, store, txn, run>>

\* a query that ends with a commit on the service's connection
AfterSelects_Commits(db) ==
    [store |-> IF db.txn.open THEN db.txn.view ELSE db.store, txn |-> NoTxn]

\* the database after the statements of impact_for_files() and
\* _build_cognitive_world(): get_indexed_file_meta, list_edges and
\* list_symbols run a SELECT each, which neither opens nor commits a
\* transaction
AfterSelects(db) == db

StepChangedInputs == {<<Token("relative", "b.py")>>}

StepDepthArgs == {DefaultMaxDepth}

StepWorlds ==
    {NoWorld("disabled by config"),
     World([p \in Paths |-> <<Prediction("file:", "a.py", DefaultStrength)>>])}

\* impact_for_files(changed_files, max_depth) on the service, between two
\* calls of refresh_index(); it reads through the service's connection
ImpactBetweenCalls ==
    /\ run.pc = "idle"
    /\ result.op /= "impact"
    /\ \E changed_files \in StepChangedInputs, max_depth \in StepDepthArgs,
          world \in StepWorlds :
         result' = [op |-> "impact",
                    report |-> ImpactForFiles(View, changed_files, max_depth, world)]
    /\ LET db == AfterSelects([store |-> store, txn |-> txn])
       IN store' = db.store /\ txn' = db.txn
    /\ UNCHANGED <<fs, run>>

InitSteps == Init

NextSteps ==
    \/ WriteBetweenCalls
    \/ RemoveBetweenCalls
    \/ BeginRefresh
    \/ DeleteFileStatements
    \/ DeleteFileCommit
    \/ SkipFile
    \/ UpsertFile
    \/ ReplaceDeleteRows
    \/ InsertSymbols
    \/ InsertImports
    \/ InsertCalls
    \/ ReplaceCommit
    \/ ReplaceEdgesDelete
    \/ ReplaceEdgesInsertRow
    \/ ReplaceEdgesCommit
    \/ ReplaceFileAnalysisRaises
    \/ Restart
    \/ ReadEdges
    \/ ImpactBetweenCalls

SpecSteps == InitSteps /\ [][NextSteps]_vars

(***************************************************************************)
(* The StateStore methods called one by one, in any order and on any       *)
(* bounded argument, each running to its commit.                           *)
(***************************************************************************)
StorePaths == {"a.py", "b.py"}

StoreTexts == {"a_import_b", "b_import_c", "broken"}

\* rows for replace_edges: two of one triple, one between the other two
\* paths
EdgeRows ==
    {Edge("a.py", "b.py", "import", ImportWeight),
     Edge("a.py", "b.py", "import", CallWeight),
     Edge("b.py", "a.py", "call", CallWeight),
     Edge("c.py", "d.py", "import", ImportWeight)}

\* upsert_indexed_file(file_path, ...) with the hash and the parse error of
\* one text; row records the values given, replaced the rows the path had
CallUpsertIndexedFile ==
    \E file_path \in StorePaths, src \in StoreTexts :
      /\ store' = UpsertIndexedFile(store, file_path, Sha256Text(src), 0,
                                    ParsePythonFile(src).parse_error)
      /\ result' = [op |-> "upsert_indexed_file", file_path |-> file_path,
                    row |-> [file_hash |-> Sha256Text(src), mtime |-> 0,
                             parse_error |-> ParsePythonFile(src).parse_error],
                    replaced |-> {store.indexed_files[q] :
                                    q \in DOMAIN store.indexed_files \cap {file_path}}]
      /\ UNCHANGED <<fs, txn, run>>

\* replace_file_analysis(file_path, ...) with the analysis of one text; src
\* records the text, replaced whether the path had rows before
CallReplaceFileAnalysis ==
    \E file_path \in StorePaths, src \in StoreTexts :
      LET parsed == ParsePythonFile(src)
      IN /\ store' = ReplaceFileAnalysis(store, file_path, parsed.symbols,
                                         parsed.imports, parsed.calls)
         /\ result' = [op |-> "replace_file_analysis", file_path |-> file_path,
                       src |-> src,
                       replaced |-> \E r \in DOMAIN store.symbols \cup DOMAIN store.imports
                                             \cup DOMAIN store.calls :
                                      r.file_path = file_path]
         /\ UNCHANGED <<fs, txn, run>>

\* delete_file(file_path); removed records the rows the path had
CallDeleteFile ==
    \E file_path \in StorePaths :
      /\ store' = DeleteFile(store, file_path)
      /\ result' = [op |-> "delete_file", file_path |-> file_path,
                    removed |-> RowsOf(store, file_path)]
      /\ UNCHANGED <<fs, txn, run>>

\* replace_edges(edges)
CallReplaceEdges ==
    \E edges \in SeqsUpTo(EdgeRows, MaxEdgeRows) :
      /\ store' = ReplaceEdges(store, edges)
      /\ result' = [op |-> "replace_edges", edges |-> edges]
      /\ UNCHANGED <<fs, txn, run>>

InitStore == Init

NextStore ==
    \/ CallUpsertIndexedFile
    \/ CallReplaceFileAnalysis
    \/ CallDeleteFile
    \/ CallReplaceEdges

SpecStore == InitStore /\ [][NextStore]_vars

(***************************************************************************)
(* Properties of refresh_index, checked under Spec.                        *)
(***************************************************************************)
Stats == result.stats

\* the rows of a store, without row ids
StoreContent(st) ==
    [indexed_files |-> st.indexed_files, symbols |-> st.symbols,
     imports |-> st.imports, calls |-> st.calls, edges |-> SeqToSet(st.edges)]

\* C1: after every completed refresh the store holds exactly what one
\* refresh of an empty store produces for the tree now on disk.
C1_IncrementalEqualsScratch ==
    result.op = "refresh" =>
      StoreContent(store) = StoreContent(RefreshIndex(EmptyStore, fs).store)

\* a refresh that skipped a file, re-indexed another and deleted a third
C1_Witness ==
    /\ result.op = "refresh"
    /\ Stats.files_skipped >= 1
    /\ Stats.files_indexed >= 1
    /\ Stats.files_deleted >= 1
    /\ Len(store.edges) >= 1

\* no indexed file has a parse error recorded
NoRecordedParseError(st) ==
    \A p \in IndexedPaths(st) : st.indexed_files[p].parse_error = ""

\* C2 as stated: a refresh that directly follows a refresh, the tree being
\* untouched in between, indexes nothing and skips every file the first
\* one scanned.
C2_SecondRefreshSkipsAll ==
    [][(result.op = "refresh" /\ result'.op = "refresh") =>
         /\ result'.stats.files_indexed = 0
         /\ result'.stats.files_skipped = result.stats.files_scanned]_vars

\* C2 amended: the same, when the first refresh left no parse error
\* recorded.
C2_SecondRefreshSkipsAllParsed ==
    [][(result.op = "refresh" /\ result'.op = "refresh" /\ NoRecordedParseError(store)) =>
         /\ result'.stats.files_indexed = 0
         /\ result'.stats.files_skipped = result.stats.files_scanned]_vars

\* a refresh that skipped all of its three files
C2_Witness ==
    /\ result.op = "refresh"
    /\ Stats.files_scanned = 3
    /\ Stats.files_skipped = 3
    /\ Stats.files_indexed = 0
    /\ NoRecordedParseError(store)

\* C3: a refresh leaves no row and no edge of an indexed file that is gone
\* from the tree, and reports as files_deleted the number of such files.
C3_DeletionPropagates ==
    [][result'.op = "refresh" =>
         LET gone == {p \in IndexedPaths(store) : ~fs[p].exists}
         IN /\ \A p \in gone : RowsOf(store', p) = NoRows
            /\ result'.stats.files_deleted = Cardinality(gone)]_vars

\* a refresh that deleted one file and kept others, with edges left
C3_Witness ==
    /\ result.op = "refresh"
    /\ Stats.files_deleted = 1
    /\ ~fs["b.py"].exists
    /\ Cardinality(IndexedPaths(store)) = 2

\* C4: every refresh parses again each file that has a parse error recorded
\* and is still in the tree, and counts it as indexed, not as skipped.
C4_ParseErrorRetried ==
    [][result'.op = "refresh" =>
         LET failed == {p \in IndexedPaths(store) :
                          store.indexed_files[p].parse_error /= "" /\ fs[p].exists}
         IN /\ failed \subseteq SeqToSet(result'.parsed)
            /\ result'.stats.files_indexed >= Cardinality(failed)
            /\ result'.stats.files_skipped
                 <= result'.stats.files_scanned - Cardinality(failed)]_vars

\* a refresh that parsed a file again though its hash and mtime were those
\* of its row, and skipped another file
C4_Witness ==
    /\ result.op = "refresh"
    /\ result.retried = <<"a.py">>
    /\ store.indexed_files["a.py"].parse_error /= ""
    /\ Stats.files_indexed = 1
    /\ Stats.files_skipped >= 1

\* C5: after a completed refresh no edge is a self-loop and no two edge
\* rows share (src, dst, edge_type).
C5_NoSelfLoopNoDuplicate ==
    result.op = "refresh" =>
      /\ \A i \in 1..Len(store.edges) : store.edges[i].src_file /= store.edges[i].dst_file
      /\ \A i, j \in 1..Len(store.edges) :
           SameTriple(store.edges[i], store.edges[j]) => i = j

\* a refresh of a tree in which b.py calls a name it defines itself
C5_Witness ==
    /\ result.op = "refresh"
    /\ Len(store.edges) >= 3
    /\ \E c \in BagToSet(store.calls), d \in BagToSet(store.symbols) :
         c.file_path = d.file_path /\ c.callee_name = d.symbol_name

\* the edges the stored facts derive, given the files now on disk
DerivedEdges(st, tree) ==
    {e \in [src_file : IndexedPaths(st), dst_file : Paths,
            edge_type : {"import", "call"}, weight : {ImportWeight, CallWeight}] :
       /\ e.src_file /= e.dst_file
       /\ \/ /\ e.edge_type = "import"
             /\ e.weight = ImportWeight
             /\ \E r \in BagToSet(st.imports) :
                  /\ r.file_path = e.src_file
                  /\ ResolveImportToFile(tree, r.module_name) = e.dst_file
          \/ /\ e.edge_type = "call"
             /\ e.weight = CallWeight
             /\ \E c \in BagToSet(st.calls), d \in BagToSet(st.symbols) :
                  /\ c.file_path = e.src_file
                  /\ d.file_path = e.dst_file
                  /\ c.callee_name = d.symbol_name}

\* C6: after every completed refresh the edge table is exactly the edge set
\* the stored imports, calls and symbols derive.
C6_EdgesAreDerived ==
    result.op = "refresh" => SeqToSet(store.edges) = DerivedEdges(store, fs)

\* a refresh that skipped every file and still left the derived edges
C6_Witness ==
    /\ result.op = "refresh"
    /\ Stats.files_indexed = 0
    /\ Stats.files_skipped >= 2
    /\ Len(store.edges) >= 1

(***************************************************************************)
(* Properties of impact_for_files, checked under SpecQuery.                *)
(***************************************************************************)
Report == result.report

Entries == {Report.impacted[i] : i \in 1..Len(Report.impacted)}

ChangedSet == SeqToSet(Report.changed_files)

StoredEdges == SeqToSet(store.edges)

\* the files reached from the changed files by at most k edges, dst to src
RECURSIVE ReachedWithin(_, _, _)
ReachedWithin(changed, edges, k) ==
    IF k = 0 THEN changed
    ELSE LET prev == ReachedWithin(changed, edges, k - 1)
         IN prev \cup {e.src_file : e \in {x \in edges : x.dst_file \in prev}}

\* C7: without the oracle and for max_depth >= 0, the impacted files are
\* those reached within max_depth backward edges, each at the least number
\* of edges from a changed file.
C7_BoundedReverseBfs ==
    (result.op = "impact" /\ ~Report.world_model.enabled /\ Report.max_depth >= 0) =>
      /\ {e.file_path : e \in Entries} = ReachedWithin(ChangedSet, StoredEdges, Report.max_depth)
      /\ \A e \in Entries :
           /\ e.file_path \in ReachedWithin(ChangedSet, StoredEdges, e.distance)
           /\ e.distance > 0 =>
                e.file_path \notin ReachedWithin(ChangedSet, StoredEdges, e.distance - 1)

\* two changed files; a.py is one edge from b.py and three edges from d.py
C7_Witness ==
    /\ result.op = "impact"
    /\ ~Report.world_model.enabled
    /\ Report.max_depth >= 3
    /\ Report.changed_files = <<"b.py", "d.py">>
    /\ "a.py" \in ReachedWithin({"d.py"}, StoredEdges, 3)
    /\ "a.py" \notin ReachedWithin({"d.py"}, StoredEdges, 2)
    /\ \E e \in Entries : e.file_path = "a.py" /\ e.distance = 1

\* the tree of the end-to-end scenario
ScenarioTree ==
    [p \in Paths |->
       CASE p = "a.py" -> File("a_import_b", 0)
         [] p = "b.py" -> File("b_def_foo", 0)
         [] p = "c.py" -> File("c_from_b", 0)
         [] OTHER -> Absent]

\* the report of impact_for_files(["b.py"]) on the scenario
ScenarioHolds ==
    (fs = ScenarioTree /\ Report.changed_files = <<"b.py">>
       /\ Report.max_depth = DefaultMaxDepth) =>
      /\ \E e \in Entries : e.file_path = "b.py" /\ e.distance = 0 /\ e.impact_kind = "changed"
      /\ \E e \in Entries : e.file_path = "a.py" /\ e.distance = 1 /\ e.impact_kind = "direct"
      /\ \E e \in Entries : e.file_path = "c.py" /\ e.distance = 1 /\ e.impact_kind = "direct"
      /\ Report.direct_count >= 2

\* C8 as stated: the scenario, and with the default max_depth every file
\* with an edge to a changed file is reported at distance 1.
C8_EdgeToChangedIsDirect ==
    (result.op = "impact" /\ Report.max_depth = DefaultMaxDepth) =>
      /\ ScenarioHolds
      /\ \A x \in StoredEdges :
           x.dst_file \in ChangedSet =>
             \E e \in Entries : e.file_path = x.src_file /\ e.distance = 1

\* C8 amended: the scenario, and for max_depth >= 1 every file that is not
\* itself changed and has an edge to a changed file is reported at
\* distance 1.
C8_UnchangedWithEdgeToChangedIsDirect ==
    result.op = "impact" =>
      /\ ScenarioHolds
      /\ Report.max_depth >= 1 =>
           \A x \in StoredEdges :
             (x.dst_file \in ChangedSet /\ x.src_file \notin ChangedSet) =>
               \E e \in Entries :
                 e.file_path = x.src_file /\ e.distance = 1 /\ e.impact_kind = "direct"

\* impact_for_files(["b.py"]) on the indexed scenario tree
C8_Witness ==
    /\ result.op = "impact"
    /\ fs = ScenarioTree
    /\ Report.changed_files = <<"b.py">>
    /\ Report.max_depth = DefaultMaxDepth
    /\ Len(store.edges) = 2
    /\ Report.direct_count = 2

\* c is max(0.25, round(0.75 / d, 3)), in thousandths
IsTransitiveConfidence(c, d) ==
    \E r \in 0..TransitiveNumerator :
      /\ 2 * r * d - 2 * TransitiveNumerator <= d
      /\ 2 * TransitiveNumerator - 2 * r * d <= d
      /\ c = (IF r >= ConfidenceFloor THEN r ELSE ConfidenceFloor)

\* confidence does not grow with the distance, from distance 1 on
NonIncreasingBeyondOne ==
    \A e, f \in Entries :
      (1 <= e.distance /\ e.distance < f.distance) => f.confidence <= e.confidence

\* C9 as stated: in every report the confidence of an entry is 1.0 at
\* distance 0, 0.85 at distance 1 and max(0.25, round(0.75 / d, 3)) at
\* distance d >= 2, and does not grow with the distance beyond 1.
C9_ConfidenceByDistance ==
    result.op = "impact" =>
      /\ \A e \in Entries :
           /\ e.distance = 0 => e.confidence = 1000
           /\ e.distance = 1 => e.confidence = 850
           /\ e.distance >= 2 => IsTransitiveConfidence(e.confidence, e.distance)
      /\ NonIncreasingBeyondOne

\* C9 amended: at distance 1 the confidence is 0.85 unless the entry's
\* source is world_model, and then it is at least 0.85.
C9_ConfidenceByDistanceAndSource ==
    result.op = "impact" =>
      /\ \A e \in Entries :
           /\ e.distance = 0 => e.confidence = 1000
           /\ (e.distance = 1 /\ e.impact_source /= "world_model") => e.confidence = 850
           /\ (e.distance = 1 /\ e.impact_source = "world_model") => e.confidence >= 850
           /\ e.distance >= 2 => IsTransitiveConfidence(e.confidence, e.distance)
      /\ NonIncreasingBeyondOne

\* a report with an entry the graph gives at distance 1, an entry at
\* distance 2 and an entry that only the oracle predicted
C9_Witness ==
    /\ result.op = "impact"
    /\ \E e \in Entries : e.distance = 1 /\ e.impact_source = "graph"
    /\ \E e \in Entries : e.distance = 2 /\ e.impact_kind = "transitive"
    /\ \E e \in Entries : e.impact_source = "world_model" /\ e.confidence > 850

\* C10: every entry of every report has a confidence in [0, 1].
C10_ConfidenceInUnitInterval ==
    result.op = "impact" =>
      \A e \in Entries : 0 <= e.confidence /\ e.confidence <= 1000

(***************************************************************************)
(* Properties of the store operations and of interrupted refreshes,        *)
(* checked under SpecSteps.                                                *)
(***************************************************************************)
\* C11: when replace_file_analysis fails after it started, reads through
\* the store still return the symbol, import and call rows the path had
\* before the call, and nothing of the failed call is left for a later
\* commit to make durable.
C11_ReplaceFileFactsAllOrNothing ==
    result.op = "raised" =>
      /\ FactRows(View, result.file_path) = result.before
      /\ View = store

\* the facts _parse_python_file extracts from the file now at path p
CurrentFacts(p) ==
    FactRows(ReplaceFileAnalysis(EmptyStore, p, ParsePythonFile(fs[p].src).symbols,
                                 ParsePythonFile(fs[p].src).imports,
                                 ParsePythonFile(fs[p].src).calls), p)

\* C12: after a completed refresh the stored symbols, imports and calls of
\* every file on disk are those of its current content, also when an
\* earlier refresh was aborted between upsert_indexed_file and the commit of
\* replace_file_analysis.
C12_NoStaleFactsAfterAbort ==
    result.op = "refresh" =>
      \A p \in StepPaths : fs[p].exists => FactRows(store, p) = CurrentFacts(p)

\* C13: list_edges() on another connection returns, while replace_edges
\* runs, the edge set committed before it, and after refresh_index()
\* returned, the complete edge set of the stored facts; never the table
\* emptied by the DELETE nor a part of the new rows.
C13_ReaderSeesCommittedEdges ==
    result.op = "list_edges" =>
      /\ result.during = "edges_insert" => result.rows = result.before
      /\ result.during = "idle" =>
           result.rows = SortedEdges(ImportEdges(store, fs) \cup CallEdges(store))

\* a read while the service's transaction holds one of the two rows it is
\* inserting and the table committed before replace_edges held one row
C13_Witness ==
    /\ result.op = "list_edges"
    /\ run.pc = "edges_insert"
    /\ txn.open
    /\ Len(txn.view.edges) = 1
    /\ Len(run.edges) = 1
    /\ Len(result.rows) = 1
    /\ result.rows /= txn.view.edges

(***************************************************************************)
(* Properties of the StateStore methods, checked under SpecStore.          *)
(***************************************************************************)
\* the edge rows with neither end at path p
EdgesAwayFrom(st, p) == {e \in SeqToSet(st.edges) : e.src_file /= p /\ e.dst_file /= p}

\* the indexed-file row of path p, as a set
IndexedRow(st, p) == {st.indexed_files[q] : q \in IndexedPaths(st) \cap {p}}

\* C14: delete_file(path) leaves no indexed-file row, no symbol, import or
\* call row and no edge of path, and changes no row of another path and no
\* edge that does not touch path.
C14_DeleteFileFrame ==
    [][result'.op = "delete_file" =>
         LET p == result'.file_path
         IN /\ RowsOf(store', p) = NoRows
            /\ EdgesAwayFrom(store', p) = EdgesAwayFrom(store, p)
            /\ \A q \in Paths \ {p} :
                 /\ IndexedRow(store', q) = IndexedRow(store, q)
                 /\ FactRows(store', q) = FactRows(store, q)]_vars

\* delete_file("b.py") removed an indexed-file row, symbols and an edge of
\* b.py from a store that still holds the rows of a.py and an edge between
\* two other paths
C14_Witness ==
    /\ result.op = "delete_file"
    /\ result.file_path = "b.py"
    /\ result.removed.indexed
    /\ result.removed.symbols /= {}
    /\ result.removed.edges /= {}
    /\ "a.py" \in IndexedPaths(store)
    /\ FactRows(store, "a.py").imports /= EmptyBag
    /\ store.edges = <<Edge("c.py", "d.py", "import", ImportWeight)>>

\* C15: after replace_edges(E) the table holds one row for each triple of
\* E, each of them a row of E, and nothing else; it is empty for E = [].
C15_ReplaceEdgesIsFullReplace ==
    [][result'.op = "replace_edges" =>
         LET E == SeqToSet(result'.edges)
             rows == ListEdges(store')
         IN /\ SeqToSet(rows) \subseteq E
            /\ \A e \in E : \E i \in 1..Len(rows) : SameTriple(rows[i], e)
            /\ \A i, j \in 1..Len(rows) : SameTriple(rows[i], rows[j]) => i = j
            /\ result'.edges = << >> => rows = << >>]_vars

\* replace_edges was given one triple twice, with two weights
C15_Witness ==
    /\ result.op = "replace_edges"
    /\ Len(result.edges) = 2
    /\ SameTriple(result.edges[1], result.edges[2])
    /\ result.edges[1].weight /= result.edges[2].weight
    /\ Len(store.edges) = 1

(***************************************************************************)
(* Invariants of the committed store.                                      *)
(***************************************************************************)
\* the paths that own a symbol, import or call row
FactOwners(st) ==
    {r.file_path : r \in BagToSet(st.symbols) \cup BagToSet(st.imports) \cup BagToSet(st.calls)}

\* C16: in every committed state, also between the commits of one
\* refresh, every symbol, import and call row belongs to a path that has an
\* indexed-file row.
C16_FactsHaveOwner == FactOwners(store) \subseteq IndexedPaths(store)

\* a refresh in progress has committed the facts of one file and the
\* indexed-file row of the next, whose facts are not yet committed
C16_Witness ==
    /\ run.pc = "insert_imports"
    /\ run.rel = "b.py"
    /\ "a.py" \in FactOwners(store)
    /\ "b.py" \in IndexedPaths(store)
    /\ "b.py" \notin FactOwners(store)
    /\ "b.py" \in FactOwners(View)

\* C17: after a completed refresh both ends of every stored edge have an
\* indexed-file row, whatever the tree, excluded directories included.
C17_EdgeEndsAreIndexed ==
    result.op = "refresh" =>
      \A e \in SeqToSet(store.edges) :
        e.src_file \in IndexedPaths(store) /\ e.dst_file \in IndexedPaths(store)

(***************************************************************************)
(* More properties of refresh_index, checked under Spec.                   *)
(***************************************************************************)
\* the files refresh_index scans
Scanned == SeqToSet(IterPythonFiles(fs))

NoFacts == [symbols |-> EmptyBag, imports |-> EmptyBag, calls |-> EmptyBag]

\* C18: a refresh of a tree with a file that does not parse returns its
\* counters and has processed every file; the failing file has an
\* indexed-file row with a non-empty parse_error and owns no symbol, import
\* or call row.
C18_ParseFailureIsNormal ==
    result.op = "refresh" =>
      /\ Stats.files_scanned = Cardinality(Scanned)
      /\ Stats.files_indexed + Stats.files_skipped = Stats.files_scanned
      /\ IndexedPaths(store) = Scanned
      /\ \A p \in Scanned :
           /\ store.indexed_files[p].file_hash = Sha256Text(fs[p].src)
           /\ ~SourceTree(fs[p].src).ok =>
                /\ store.indexed_files[p].parse_error /= ""
                /\ FactRows(store, p) = NoFacts

\* a refresh that parsed the broken a.py, and nothing else, beside an
\* indexed b.py that owns rows
C18_Witness ==
    /\ result.op = "refresh"
    /\ fs["a.py"].exists
    /\ ~SourceTree(fs["a.py"].src).ok
    /\ result.parsed = <<"a.py">>
    /\ Stats.parse_errors = 1
    /\ Stats.files_skipped >= 1
    /\ FactRows(store, "b.py") /= NoFacts

\* C19: the parse_errors counter of every completed refresh equals
\* index_stats().parse_errors.
C19_ParseErrorsCounterMatchesStore ==
    result.op = "refresh" => Stats.parse_errors = IndexStats(store).parse_errors

\* a refresh that found the broken file with its hash and mtime unchanged
C19_Witness ==
    /\ result.op = "refresh"
    /\ result.retried = <<"a.py">>
    /\ Stats.parse_errors = 1
    /\ IndexStats(store).parse_errors = 1
    /\ IndexStats(store).indexed_files >= 2

\* C20: a refresh skips exactly the files that have a previous row with
\* the same hash, the same mtime and an empty parse_error; the others are
\* parsed and counted in files_indexed.
C20_SkippedIffUnchanged ==
    [][result'.op = "refresh" =>
         LET skipped == {p \in Scanned : p \notin SeqToSet(result'.parsed)}
         IN /\ \A p \in Scanned :
                 p \in skipped <=>
                   /\ p \in IndexedPaths(store)
                   /\ store.indexed_files[p].file_hash = Sha256Text(fs[p].src)
                   /\ store.indexed_files[p].mtime = fs[p].mtime
                   /\ store.indexed_files[p].parse_error = ""
            /\ result'.stats.files_skipped = Cardinality(skipped)
            /\ result'.stats.files_indexed = Len(result'.parsed)]_vars

\* a refresh that skipped a.py and parsed b.py, which has no parse error
C20_Witness ==
    /\ result.op = "refresh"
    /\ result.parsed = <<"b.py">>
    /\ result.retried = << >>
    /\ Stats.parse_errors = 0
    /\ Stats.files_skipped = 1
    /\ Stats.files_deleted = 0
    /\ fs["b.py"].src = "b_def_foo"
    /\ fs["a.py"].src = "a_import_b"

(***************************************************************************)
(* Properties of impact_for_files() with a world model, checked under      *)
(* SpecOracle, where the arguments of the call are on record.              *)
(***************************************************************************)
\* C21: impact_for_files() never raises because of the world model: when
\* the world model is disabled, cannot be imported, cannot be constructed,
\* or raises while it is loaded or queried, the call returns the pure-graph
\* report with the reason in the world_model summary.
C21_OracleIsBestEffort ==
    /\ result.op /= "impact_raised"
    /\ (result.op = "impact" /\ ~Report.world_model.enabled) =>
         /\ Report.world_model.error /= ""
         /\ Report.world_predicted_files = << >>
         /\ \A e \in Entries : e.impact_source \in {"changed", "graph"}

\* the world model of the recorded call
RecordedWorld == result.world

\* the strengths the recorded world model predicts for p from the changed
\* files of the report
OracleStrengths(p) ==
    IF ~RecordedWorld.enabled THEN {}
    ELSE UNION {{lst[i].strength :
                   i \in {j \in 1..Len(lst) :
                            lst[j].effect.prefix = "file:" /\ lst[j].effect.rest = p}} :
                lst \in {RecordedWorld.consequences[c] : c \in ChangedSet}}

SetMax(S) == CHOOSE x \in S : \A y \in S : y <= x

\* the indexed files the recorded world model predicts
OraclePredicted == {p \in IndexedPaths(store) : OracleStrengths(p) /= {}}

\* the depth the traversal goes to
TraversalDepth == IF Report.max_depth < 0 THEN 0 ELSE Report.max_depth

\* the files the graph traversal reaches from the changed files
GraphReached == ReachedWithin(ChangedSet, StoredEdges, TraversalDepth)

\* the least number of edges from a changed file to p, for p in GraphReached
GraphDistance(p) ==
    CHOOSE k \in 0..TraversalDepth :
      /\ p \in ReachedWithin(ChangedSet, StoredEdges, k)
      /\ k > 0 => p \notin ReachedWithin(ChangedSet, StoredEdges, k - 1)

EntryOf(p) == CHOOSE e \in Entries : e.file_path = p

\* C22 as stated: a predicted file that the traversal did not reach is
\* reported at distance 1 with source world_model and with the predicted
\* strength as its confidence.
C22_PredictedOnlyHasStrength ==
    result.op = "impact" =>
      \A p \in OraclePredicted \ GraphReached :
        /\ \E e \in Entries : e.file_path = p
        /\ EntryOf(p).distance = 1
        /\ EntryOf(p).impact_source = "world_model"
        /\ EntryOf(p).confidence * 10 = SetMax(OracleStrengths(p))

\* C22 amended: a predicted file that the traversal did not reach is
\* reported at distance 1 with source world_model and with the larger of
\* 0.85 and the predicted strength rounded to 3 decimals as its confidence.
C22_PredictedOnlyHasStrengthOrFloor ==
    result.op = "impact" =>
      \A p \in OraclePredicted \ GraphReached :
        /\ \E e \in Entries : e.file_path = p
        /\ EntryOf(p).distance = 1
        /\ EntryOf(p).impact_kind = "direct"
        /\ EntryOf(p).impact_source = "world_model"
        /\ EntryOf(p).confidence =
             Max(DirectConfidence, Round3(SetMax(OracleStrengths(p))))

\* a report for a changed file that a.py does not depend on, with a.py
\* predicted at strength 0.4 and reported with confidence 0.85
C22_Witness ==
    /\ result.op = "impact"
    /\ "a.py" \in OraclePredicted \ GraphReached
    /\ ChangedSet /= {}
    /\ SetMax(OracleStrengths("a.py")) = DefaultStrength
    /\ EntryOf("a.py").confidence = DirectConfidence
    /\ EntryOf("a.py").impact_source = "world_model"

\* C23: a file that the traversal reached and that the world model also
\* predicts is reported with source graph+world_model and with the larger
\* of its graph confidence and the predicted strength as its confidence.
C23_ReachedAndPredictedHasMax ==
    result.op = "impact" =>
      \A p \in (OraclePredicted \cap GraphReached) \ ChangedSet :
        /\ \E e \in Entries : e.file_path = p
        /\ EntryOf(p).impact_source = "graph+world_model"
        /\ EntryOf(p).confidence =
             Max(DistanceConfidence(GraphDistance(p)), Round3(SetMax(OracleStrengths(p))))

\* the world model of the recorded call with the effects removed that do
\* not name an indexed file
EffectiveWorld ==
    IF ~RecordedWorld.enabled THEN RecordedWorld
    ELSE World([p \in Paths |->
                  SelectSeq(RecordedWorld.consequences[p],
                            LAMBDA c : c.effect.prefix = "file:"
                                         /\ c.effect.rest \in IndexedPaths(store))])

\* C24: the report is the one the call gives when every effect is removed
\* whose key does not start with file: or does not name an indexed file;
\* where no effect is left, no entry has a source other than changed and
\* graph and every confidence is the one of its distance.
C24_OnlyIndexedFileEffectsCount ==
    result.op = "impact" =>
      /\ Report = ImpactForFiles(store, result.changed_files, Report.max_depth,
                                 EffectiveWorld)
      /\ OraclePredicted = {} =>
           /\ Report.world_predicted_files = << >>
           /\ \A e \in Entries :
                /\ e.file_path \in GraphReached
                /\ e.distance = GraphDistance(e.file_path)
                /\ e.confidence = DistanceConfidence(e.distance)
                /\ e.impact_source \in {"changed", "graph"}

\* a report for a changed file where the world model predicted d.py and
\* d.py is not indexed
C24_Witness ==
    /\ result.op = "impact"
    /\ RecordedWorld.enabled
    /\ ChangedSet = {"b.py"}
    /\ RecordedWorld.consequences["b.py"] = <<Prediction("file:", "d.py", DefaultStrength)>>
    /\ "d.py" \notin IndexedPaths(store)
    /\ IndexedPaths(store) /= {}
    /\ \A e \in Entries : e.file_path /= "d.py"
    /\ \E e \in Entries : e.distance = 1

\* the paths the recorded input tokens name
NamedPaths == {result.changed_files[i].rel : i \in 1..Len(result.changed_files)}

\* C25: changed_files is sorted, without duplicates, within the indexed
\* paths, and holds exactly the indexed paths that an input names; these
\* and no others are at distance 0; without such an input the impacted
\* list is empty.
C25_UnresolvableInputsAreDropped ==
    result.op = "impact" =>
      /\ \A i, j \in 1..Len(Report.changed_files) :
           i < j => PathRank(Report.changed_files[i]) < PathRank(Report.changed_files[j])
      /\ ChangedSet \subseteq IndexedPaths(store)
      /\ ChangedSet = NamedPaths \cap IndexedPaths(store)
      /\ {e.file_path : e \in {x \in Entries : x.distance = 0}} = ChangedSet
      /\ ChangedSet = {} => Report.impacted = << >>

\* a call with an unknown path and the absolute path of an indexed file
C25_Witness ==
    /\ result.op = "impact"
    /\ result.changed_files = <<Token("relative", "zzz.py"), Token("absolute", "c.py")>>
    /\ Report.changed_files = <<"c.py">>
    /\ Len(Report.impacted) >= 2

C27_ExcludedDirsAreNotIndexed ==
    [][result'.op = "refresh" =>
         /\ \A p \in IndexedPaths(store') : PathParts(p) \cap SKIP_DIRS = {}
         /\ result.op = "move" =>
              /\ RowsOf(store', result.src) = NoRows
              /\ result.dst \notin IndexedPaths(store')
              /\ RowsOf(store', result.dst).symbols = {}
              /\ RowsOf(store', result.dst).imports = {}
              /\ RowsOf(store', result.dst).calls = {}
              /\ \A e \in SeqToSet(store'.edges) : e.src_file /= result.dst
              /\ result'.stats.files_deleted = IF result.indexed THEN 1 ELSE 0]_vars

\* a refresh that found b.py, indexed before with its symbol foo, moved to
\* build/b.py
C27_Witness ==
    /\ result.op = "refresh"
    /\ Stats.files_deleted = 1
    /\ fs["build/b.py"].exists
    /\ fs["build/b.py"].src = "b_def_foo"
    /\ ~fs["b.py"].exists
    /\ IndexedPaths(store) = Scanned
    /\ Cardinality(Scanned) >= 2

\* the call edges in the store
StoredCallEdges == {e \in StoredEdges : e.edge_type = "call"}

\* the files that own a symbol of the given name
OwnersOf(name) ==
    {r.file_path : r \in {q \in BagToSet(store.symbols) : q.symbol_name = name}}

\* C28: after a completed refresh there is a call edge src -> owner exactly
\* when src has a call row whose callee_name is the name of a symbol of
\* owner and owner is not src, and every call edge has weight 0.7.
C28_CallEdgesByNameToEveryOwner ==
    result.op = "refresh" =>
      /\ \A e \in StoredCallEdges : e.weight = CallWeight
      /\ \A src, owner \in Paths :
           (\E e \in StoredCallEdges : e.src_file = src /\ e.dst_file = owner)
             <=> /\ owner /= src
                 /\ \E c \in BagToSet(store.calls) :
                      c.file_path = src /\ owner \in OwnersOf(c.callee_name)

\* a refresh after which foo has three owners, c.py calls foo and has a
\* call edge to each of them, and b.py calls foo, owns a foo and has call
\* edges to the two other owners but not to itself
C28_Witness ==
    /\ result.op = "refresh"
    /\ OwnersOf("foo") = {"b.py", "d.py", "d/__init__.py"}
    /\ {e.dst_file : e \in {x \in StoredCallEdges : x.src_file = "c.py"}}
         = {"b.py", "d.py", "d/__init__.py"}
    /\ \E c \in BagToSet(store.calls) : c.file_path = "b.py" /\ c.callee_name = "foo"
    /\ {"d.py", "d/__init__.py"}
         \subseteq {e.dst_file : e \in {x \in StoredCallEdges : x.src_file = "b.py"}}
    /\ \A e \in StoredCallEdges : e.src_file /= e.dst_file

\* the import edges in the store
StoredImportEdges == {e \in StoredEdges : e.edge_type = "import"}

\* the two files a module name may stand for
ModuleFile(module_name) == JoinWith(module_name, "/") \o ".py"

PackageFile(module_name) == JoinWith(module_name, "/") \o "/__init__.py"

OnDisk(p) == p \in Paths /\ fs[p].exists

\* C29 as stated: after a completed refresh there is an import edge
\* src -> dst exactly when src has an import row whose module name names
\* the existing file dst as <path>.py or as <path>/__init__.py and dst is
\* not src, and every import edge has weight 1.0.
C29_ImportEdgeIffEitherFileOnDisk ==
    result.op = "refresh" =>
      /\ \A e \in StoredImportEdges : e.weight = ImportWeight
      /\ \A src, dst \in Paths :
           (\E e \in StoredImportEdges : e.src_file = src /\ e.dst_file = dst)
             <=> /\ dst /= src
                 /\ \E r \in BagToSet(store.imports) :
                      /\ r.file_path = src
                      /\ r.module_name /= << >>
                      /\ OnDisk(dst)
                      /\ dst \in {ModuleFile(r.module_name), PackageFile(r.module_name)}

\* C29 amended: the file a module name stands for is <path>.py if that file
\* exists and <path>/__init__.py otherwise; there is an import edge
\* src -> dst exactly when src has an import row whose module name stands
\* for the existing file dst and dst is not src.
C29_ImportEdgeIffFirstFileOnDisk ==
    result.op = "refresh" =>
      /\ \A e \in StoredImportEdges : e.weight = ImportWeight
      /\ \A src, dst \in Paths :
           (\E e \in StoredImportEdges : e.src_file = src /\ e.dst_file = dst)
             <=> /\ dst /= src
                 /\ \E r \in BagToSet(store.imports) :
                      /\ r.file_path = src
                      /\ r.module_name /= << >>
                      /\ OnDisk(dst)
                      /\ \/ dst = ModuleFile(r.module_name)
                         \/ /\ dst = PackageFile(r.module_name)
                            /\ ~OnDisk(ModuleFile(r.module_name))

\* a refresh of a tree where a.py imports d, os and d.helper, only
\* d/__init__.py stands for d, and the one import edge of a.py goes there
C29_Witness ==
    /\ result.op = "refresh"
    /\ fs["a.py"].src = "a_import_d"
    /\ ~fs["d.py"].exists
    /\ fs["d/__init__.py"].exists
    /\ {r.module_name : r \in {q \in BagToSet(store.imports) : q.file_path = "a.py"}}
         = {<<"d">>, <<"os">>, <<"d", "helper">>}
    /\ {e.dst_file : e \in {x \in StoredImportEdges : x.src_file = "a.py"}}
         = {"d/__init__.py"}

(***************************************************************************)
(* A property of upsert_indexed_file, checked under SpecStore.             *)
(***************************************************************************)
\* C30: after upsert_indexed_file the path has the one row with the values
\* given, the same call again changes nothing, and the rows of the other
\* paths and all symbol, import, call and edge rows are as before.
C30_UpsertIsIdempotentInsertOrUpdate ==
    [][result'.op = "upsert_indexed_file" =>
         LET p == result'.file_path
             row == result'.row
         IN /\ IndexedRow(store', p) = {row}
            /\ UpsertIndexedFile(store', p, row.file_hash, row.mtime, row.parse_error)
                 = store'
            /\ \A q \in Paths \ {p} : IndexedRow(store', q) = IndexedRow(store, q)
            /\ store'.symbols = store.symbols
            /\ store'.imports = store.imports
            /\ store'.calls = store.calls
            /\ store'.edges = store.edges]_vars

\* an upsert for a.py that replaced a row with other values, in a store
\* with a row for b.py, symbols, imports and edges
C30_Witness ==
    /\ result.op = "upsert_indexed_file"
    /\ result.file_path = "a.py"
    /\ result.replaced /= {}
    /\ result.replaced /= {result.row}
    /\ result.row.parse_error /= ""
    /\ IndexedRow(store, "a.py") = {result.row}
    /\ "b.py" \in IndexedPaths(store)
    /\ store.symbols /= EmptyBag
    /\ store.imports /= EmptyBag
    /\ store.edges /= << >>

(***************************************************************************)
(* A property of replace_file_analysis, checked under SpecStore.           *)
(***************************************************************************)
\* the rows replace_file_analysis is given for path p with the analysis of
\* text src
GivenFacts(p, src) ==
    LET parsed == ParsePythonFile(src)
    IN [symbols |-> SeqToBag([i \in 1..Len(parsed.symbols) |->
                                SymbolRow(p, parsed.symbols[i])]),
        imports |-> SetToBag({ImportRow(p, m) : m \in parsed.imports}),
        calls |-> SeqToBag([i \in 1..Len(parsed.calls) |-> CallRow(p, parsed.calls[i])])]

\* C31: after replace_file_analysis(path, S, I, C) the symbol, import and
\* call rows of path are exactly S, I and C, and the rows of every other
\* path, the indexed-file rows and the edge rows are as before.
C31_FactsWhollyReplaced ==
    [][result'.op = "replace_file_analysis" =>
         LET p == result'.file_path
         IN /\ FactRows(store', p) = GivenFacts(p, result'.src)
            /\ \A q \in Paths \ {p} : FactRows(store', q) = FactRows(store, q)
            /\ store'.indexed_files = store.indexed_files
            /\ store'.edges = store.edges]_vars

\* a.py had rows and now has those of the text that imports c and defines
\* Foo, while b.py keeps the import row of the other text and the store
\* has indexed-file rows and an edge
C31_Witness ==
    /\ result.op = "replace_file_analysis"
    /\ result.file_path = "a.py"
    /\ result.src = "b_import_c"
    /\ result.replaced
    /\ FactRows(store, "a.py") = GivenFacts("a.py", "b_import_c")
    /\ FactRows(store, "b.py") = GivenFacts("b.py", "a_import_b")
    /\ IndexedPaths(store) /= {}
    /\ store.edges /= << >>

(***************************************************************************)
(* More properties of impact_for_files().                                  *)
(***************************************************************************)
\* C32: without the world model, two calls with the same changed files
\* and max_depth on stores with the same indexed files and the same
\* (src, dst) pairs of edges return the same changed_files, impacted list
\* and counts, whatever the order, the types and the weights of the rows.
C32_ReportIndependentOfEdgeListing ==
    result.op = "impact_pair" =>
      /\ result.report.changed_files = result.other.changed_files
      /\ result.report.impacted = result.other.impacted
      /\ result.report.direct_count = result.other.direct_count
      /\ result.report.transitive_count = result.other.transitive_count

\* two calls on edge tables with other rows in another order, reporting a
\* changed file, a direct and a transitive entry
C32_Witness ==
    /\ result.op = "impact_pair"
    /\ Len(result.edges) >= 4
    /\ result.other_edges /= result.edges
    /\ \E i \in 1..Len(result.edges) :
         result.other_edges[1].edge_type /= result.edges[i].edge_type
           /\ result.other_edges[1].src_file = result.edges[i].src_file
           /\ result.other_edges[1].dst_file = result.edges[i].dst_file
           /\ i > 1
    /\ result.report.direct_count >= 1
    /\ result.report.transitive_count >= 1

(***************************************************************************)
(* A property of the import rows, checked under SpecEdges.                 *)
(***************************************************************************)
\* the modules named by the import statements at module scope of a text
ModuleScopeImports(src) ==
    LET body == SourceTree(src).body
    IN ImportsOf([i \in 1..Len(body) |-> [body[i] EXCEPT !.body = << >>]])

\* C33: after a completed refresh the import rows of a file name the
\* modules of its import statements at module scope and no others, and
\* every import edge of the file comes from such a row.
C33_ImportRowsFromModuleScopeOnly ==
    result.op = "refresh" =>
      \A p \in IndexedPaths(store) :
        /\ {r.module_name : r \in {q \in BagToSet(store.imports) : q.file_path = p}}
             = ModuleScopeImports(fs[p].src)
        /\ \A e \in {x \in StoredEdges : x.edge_type = "import" /\ x.src_file = p} :
             \E m \in ModuleScopeImports(fs[p].src) : ResolveImportToFile(fs, m) = e.dst_file

(***************************************************************************)
(* A property of the counters of refresh_index, checked under Spec.        *)
(***************************************************************************)
\* C34: after every completed refresh the indexed paths are the files that
\* refresh enumerated, index_stats() counts as many files as files_scanned,
\* and files_scanned = files_indexed + files_skipped.
C34_IndexedPathsAreScannedFiles ==
    result.op = "refresh" =>
      /\ IndexedPaths(store) = Scanned
      /\ Stats.files_scanned = Cardinality(Scanned)
      /\ IndexStats(store).indexed_files = Stats.files_scanned
      /\ Stats.files_scanned = Stats.files_indexed + Stats.files_skipped

\* a refresh that deleted the row of one file, skipped one file and
\* parsed one
C34_Witness ==
    /\ result.op = "refresh"
    /\ Stats.files_deleted = 1
    /\ Stats.files_skipped = 1
    /\ Stats.files_indexed = 1
    /\ Stats.files_scanned = 2
    /\ Cardinality(IndexedPaths(store)) = 2

(***************************************************************************)
(* A property of impact_for_files() on the service's connection, checked   *)
(* under SpecSteps.                                                        *)
(***************************************************************************)
\* C35: impact_for_files() leaves the five tables, the open transaction of
\* the connection and the tree as they are, so that the next refresh does
\* and returns what it would have without the query.
C35_ImpactIsReadOnly ==
    [][result'.op = "impact" =>
         /\ store' = store
         /\ txn' = txn
         /\ fs' = fs
         /\ run' = run
         /\ RefreshIndex(View', fs') = RefreshIndex(View, fs)]_vars

\* a query with a prediction of the world model, answered while the
\* connection holds the uncommitted DELETEs of an interrupted
\* replace_file_analysis
C35_Witness ==
    /\ result.op = "impact"
    /\ txn.open
    /\ txn.view /= store
    /\ store.edges /= << >>
    /\ Report.world_model.enabled
    /\ Report.world_predicted_files = <<"a.py">>
    /\ Len(Report.impacted) >= 2

(***************************************************************************)
(* The depth limit of the traversal, checked under SpecQuery.              *)
(***************************************************************************)
\* C36: without the world model and for max_depth >= 0 no entry is farther
\* than max_depth and every file whose least number of edges to a changed
\* file is max_depth is reported at that distance; for max_depth <= 0 the
\* impacted list is the changed files, each at distance 0.
C36_MaxDepthCapsTraversal ==
    (result.op = "impact" /\ ~Report.world_model.enabled) =>
      /\ Report.max_depth >= 0 =>
           /\ \A e \in Entries : e.distance <= Report.max_depth
           /\ \A p \in ReachedWithin(ChangedSet, StoredEdges, Report.max_depth) :
                (Report.max_depth > 0
                   /\ p \notin ReachedWithin(ChangedSet, StoredEdges, Report.max_depth - 1))
                  => \E e \in Entries : e.file_path = p /\ e.distance = Report.max_depth
      /\ Report.max_depth <= 0 =>
           /\ Len(Report.impacted) = Len(Report.changed_files)
           /\ \A i \in 1..Len(Report.impacted) :
                /\ Report.impacted[i].file_path = Report.changed_files[i]
                /\ Report.impacted[i].distance = 0
                /\ Report.impacted[i].impact_kind = "changed"

\* a report for max_depth 2 with an entry at distance 2 that another file,
\* which is not reported, has an edge to
C36_Witness ==
    /\ result.op = "impact"
    /\ ~Report.world_model.enabled
    /\ Report.max_depth = 2
    /\ \E e \in Entries :
         /\ e.distance = 2
         /\ \E x \in StoredEdges :
              x.dst_file = e.file_path /\ x.src_file \notin {y.file_path : y \in Entries}

(***************************************************************************)
(* The distance of a predicted file, checked under SpecOracle.             *)
(***************************************************************************)
\* C37: an indexed file the world model predicts is reported at distance 1
\* with kind direct when it is not a changed file, whatever the traversal
\* found and whatever max_depth is, and at distance 0 with kind changed,
\* confidence 1.0 and source changed when it is a changed file.
C37_PredictedFilesAreDirect ==
    result.op = "impact" =>
      \A p \in OraclePredicted :
        /\ p \in {e.file_path : e \in Entries}
        /\ IF p \in ChangedSet
           THEN /\ EntryOf(p).distance = 0
                /\ EntryOf(p).impact_kind = "changed"
                /\ EntryOf(p).confidence = 1000
                /\ EntryOf(p).impact_source = "changed"
           ELSE /\ EntryOf(p).distance = 1
                /\ EntryOf(p).impact_kind = "direct"

\* a report where the world model predicts a file that the traversal reached
\* at a distance over 1
C37_Witness ==
    /\ result.op = "impact"
    /\ \E p \in OraclePredicted \ ChangedSet :
         /\ p \in GraphReached
         /\ GraphDistance(p) > 1
         /\ EntryOf(p).impact_source = "graph+world_model"

(***************************************************************************)
(* From-imports of a name, checked under SpecEdges.                        *)
(***************************************************************************)
\* the texts that import the function foo from b and nothing else
FromImportTexts == {"c_only_from_b", "c_from_b"}

=============================================================================
